---------------------------- MODULE Spec2Model ----------------------------
(***************************************************************************)
(* Keyed, energy-adaptive LSB audio steganography                          *)
(* (src/src/keyed_adaptive.py, embed.py, extract.py, robust_payload.py,    *)
(* encrypt.py).                                                            *)
(*                                                                         *)
(* Conventions.                                                            *)
(*  - A sample buffer is a sequence of signed 16-bit integers; Python's    *)
(*    0-based index i is element i+1 of the sequence.  An order holds      *)
(*    0-based sample indices, as np.argsort returns them.                  *)
(*  - A byte string is a sequence of 0..255, a bit array a sequence of     *)
(*    0..1 (most significant bit first, as np.unpackbits / np.packbits).   *)
(*  - float32 quantities are kept in fixed point: an RMS is an integer     *)
(*    number of 1/RmsScale units, a uniform draw an integer number of      *)
(*    1/RandRange units, a normalised score a fraction over a common       *)
(*    denominator.  Comparisons of ordering keys are exact on these.       *)
(*  - The external generators (SHA-256 seeding, PCG64 draws and            *)
(*    permutations, the AES block function) are modelled by fixed          *)
(*    deterministic functions of the same arguments.                       *)
(***************************************************************************)
EXTENDS Integers, Sequences, FiniteSets, TLC

(***************************************************************************)
(* Generic helpers                                                         *)
(***************************************************************************)
Min2(a, b) == IF a <= b THEN a ELSE b

Max2(a, b) == IF a >= b THEN a ELSE b

SetMax(S) == CHOOSE m \in S : \A x \in S : x <= m

Pow2(k) == 2 ^ k

\* the sequence f with every element evaluated (a function constructor alone
\* is evaluated again at each application)
AsSeq(f) == f \o << >>

\* ceil(a / k) for k > 0, any integer a
CeilDiv(a, k) == -((-a) \div k)

\* floor(sqrt(v)) for v >= 0, by bisection on [lo, hi]
RECURSIVE ISqrtIn(_, _, _)
ISqrtIn(v, lo, hi) ==
    IF lo >= hi THEN lo
    ELSE LET mid == (lo + hi + 1) \div 2
         IN  IF mid * mid <= v THEN ISqrtIn(v, mid, hi)
                               ELSE ISqrtIn(v, lo, mid - 1)

ISqrt(v) == ISqrtIn(v, 0, 46340)

(***************************************************************************)
(* Bit packing: np.unpackbits / np.packbits                                *)
(***************************************************************************)
\* _bytes_to_bits: each byte most significant bit first
BytesToBits(b) ==
    AsSeq([k \in 1..(8 * Len(b)) |->
            (b[((k - 1) \div 8) + 1] \div Pow2(7 - ((k - 1) % 8))) % 2])

\* _bits_to_bytes: np.packbits pads the last byte with zero bits
BitsToBytes(bits) ==
    LET nb == CeilDiv(Len(bits), 8)
        bit(k) == IF k <= Len(bits) THEN bits[k] ELSE 0
    IN  AsSeq([j \in 1..nb |->
            bit(8*j - 7) * 128 + bit(8*j - 6) * 64 + bit(8*j - 5) * 32
          + bit(8*j - 4) * 16 + bit(8*j - 3) * 8 + bit(8*j - 2) * 4
          + bit(8*j - 1) * 2 + bit(8*j)])

\* the 4 bytes least significant first
ToBytes4Little(v) ==
    << v % 256, (v \div 256) % 256, (v \div 65536) % 256, (v \div 16777216) % 256 >>

\* int.to_bytes(4, 'big') for 0 <= v < 2^31
ToBytes4(v) ==
    << (v \div 16777216) % 256, (v \div 65536) % 256, (v \div 256) % 256, v % 256 >>

\* sum of b[k] * (k + w) for k in lo..hi
RECURSIVE WeightedSum(_, _, _, _)
WeightedSum(b, lo, hi, w) ==
    IF lo > hi THEN 0
    ELSE IF lo = hi THEN b[lo] * (lo + w)
    ELSE LET mid == (lo + hi) \div 2
         IN  WeightedSum(b, lo, mid, w) + WeightedSum(b, mid + 1, hi, w)

\* the digest of a byte string that stands for the first 8 bytes of its SHA-256
Digest(b) == (WeightedSum(b, 1, Len(b), 2) * 31 + Len(b) * 7 + 11) % 65521

(***************************************************************************)
(* keyed_adaptive.py: frames, RMS, normalisation                           *)
(***************************************************************************)
\* fixed-point resolution of an RMS value (units per 1.0)
RmsScale == 64

\* resolution of a uniform draw in [0, 1)
RandRange == 65536

\* 1 / eps of the ordering key, eps = 1e-6
EpsInv == 1000000

\* the frames whose whole hop fits in the buffer: the trailing start is left out
FrameEdgesDropLast(n, frame_size, hop_size) ==
    LET cnt == IF frame_size < 1 \/ n < 1 THEN 0 ELSE n \div hop_size
    IN  AsSeq([k \in 1..cnt |->
            << (k - 1) * hop_size, Min2((k - 1) * hop_size + frame_size, n) >>])

\* _frame_edges: frames (k*hop, min(k*hop + frame_size, n)) for k*hop < n; the
\* loop breaks at the first frame with start >= end (frame_size < 1)
FrameEdges(n, frame_size, hop_size) ==
    LET cnt == IF frame_size < 1 \/ n < 1 THEN 0 ELSE ((n - 1) \div hop_size) + 1
    IN  AsSeq([k \in 1..cnt |->
            << (k - 1) * hop_size, Min2((k - 1) * hop_size + frame_size, n) >>])

\* sum of squares of data[lo..hi] (1-based, inclusive)
RECURSIVE SumSq(_, _, _)
SumSq(data, lo, hi) ==
    IF lo > hi THEN 0
    ELSE IF lo = hi THEN data[lo] * data[lo]
    ELSE LET mid == (lo + hi) \div 2
         IN  SumSq(data, lo, mid) + SumSq(data, mid + 1, hi)

\* sqrt(mean(frame ** 2)) of data[s:e], in 1/RmsScale units
FrameRmsOf(data, s, e) ==
    IF e <= s THEN 0
    ELSE ISqrt((RmsScale * RmsScale * SumSq(data, s + 1, e)) \div (e - s))

\* _frame_rms: one RMS per frame
FrameRms(data, edges) ==
    AsSeq([k \in 1..Len(edges) |-> FrameRmsOf(data, edges[k][1], edges[k][2])])

SeqMin(x) == CHOOSE m \in {x[k] : k \in 1..Len(x)} : \A k \in 1..Len(x) : m <= x[k]

SeqMax(x) == CHOOSE m \in {x[k] : k \in 1..Len(x)} : \A k \in 1..Len(x) : m >= x[k]

\* _normalize_scores: the scores as numerators over one denominator,
\* [num |-> <<..>>, den |-> d]; a flat input gives all ones
NormalizeScores(x) ==
    IF Len(x) = 0 THEN [num |-> << >>, den |-> 1]
    ELSE LET mn == SeqMin(x)
             mx == SeqMax(x)
         IN  IF mx - mn = 0
             THEN [num |-> AsSeq([k \in 1..Len(x) |-> 1]), den |-> 1]
             ELSE [num |-> AsSeq([k \in 1..Len(x) |-> x[k] - mn]), den |-> mx - mn]

\* the k-th smallest (k from 0) of the values of sequence x
KthSmallest(x, k) ==
    CHOOSE v \in {x[j] : j \in 1..Len(x)} :
        /\ Cardinality({j \in 1..Len(x) : x[j] < v}) <= k
        /\ Cardinality({j \in 1..Len(x) : x[j] <= v}) > k

\* scores < np.percentile(scores, pct) with linear interpolation, per frame
\* (numerators num of Len(num) >= 1 frames, pct an integer in 0..100)
BelowPercentile(num, pct) ==
    LET m   == Len(num)
        pos == pct * (m - 1)
        lo  == pos \div 100
        r   == pos % 100
        alo == KthSmallest(num, lo)
        ahi == IF lo + 1 < m THEN KthSmallest(num, lo + 1) ELSE alo
        thr == 100 * alo + r * (ahi - alo)
    IN  AsSeq([k \in 1..m |-> 100 * num[k] < thr])

\* the per-frame scores after the optional attenuation (scores[low] *= 0.1),
\* as numerators over the denominator 10 * den
AttenuatedScores(sc, pct) ==
    IF pct > 0 /\ Len(sc.num) > 0
    THEN LET low == BelowPercentile(sc.num, pct)
         IN  AsSeq([k \in 1..Len(sc.num) |->
                        IF low[k] THEN sc.num[k] ELSE 10 * sc.num[k]])
    ELSE AsSeq([k \in 1..Len(sc.num) |-> 10 * sc.num[k]])

\* the broadcast in which a sample keeps the score of the first frame
\* containing it
PerSampleScoreFirst(n, edges, fscore) ==
    AsSeq([i \in 1..n |->
        LET ks == {k \in 1..Len(edges) : edges[k][1] <= i - 1 /\ i - 1 < edges[k][2]}
        IN  IF ks = {} THEN 0 ELSE fscore[CHOOSE k \in ks : \A m \in ks : k <= m]])

\* per_sample_score[s:e] = sc for the frames in order: a sample takes the score
\* of the last frame containing it, 0 when no frame contains it
PerSampleScore(n, edges, fscore) ==
    AsSeq([i \in 1..n |->
        LET ks == {k \in 1..Len(edges) : edges[k][1] <= i - 1 /\ i - 1 < edges[k][2]}
        IN  IF ks = {} THEN 0 ELSE fscore[SetMax(ks)]])

\* _hash_to_seed: the seed taken from the SHA-256 digest of the key
HashToSeed(key) == Digest(key)

\* rng.random(n, dtype=float32) of default_rng(seed): draw i (0-based)
RandDraw(seed, i) ==
    (((seed % 4093) + 1) * 40503 + (i + 1) * 30011
        + (((i + 7) * (i + seed + 3)) % 9973) * 1237) % RandRange

RandomVector(seed, n) == AsSeq([i \in 1..n |-> RandDraw(seed, i - 1)])

\* ord_key[a] <= ord_key[b]: a comparison that also holds for equal keys
OrdKeyLessOrEqual(ra, sa, rb, sb, den) ==
    LET lhs == ra * sb - rb * sa
        rhs == den * (rb - ra)
    IN  lhs <= rhs \div 100000

\* the comparison for the key rand * (score + eps), which puts low scores first
OrdKeyLessProduct(ra, sa, rb, sb, den) ==
    LET lhs == ra * sa - rb * sb
        rhs == den * (rb - ra)
    IN  lhs < CeilDiv(rhs * 10, EpsInv)

\* ord_key[a] < ord_key[b] for rand / (score + eps): with the scores sa, sb
\* over the denominator 10*den,
\*     ra / (sa/(10 den) + eps) < rb / (sb/(10 den) + eps)
\* iff (ra*sb - rb*sa) * 10^5 < den * (rb - ra)
OrdKeyLess(ra, sa, rb, sb, den) ==
    LET lhs == ra * sb - rb * sa
        rhs == den * (rb - ra)
    IN  lhs < CeilDiv(rhs * 10, EpsInv)

\* one run of the merge of the sorted index lists L[i..] and R[j..]: at most
\* fuel elements, the right element taken only when its key is strictly
\* smaller; gives << i, j, run >> with the positions reached
RECURSIVE MergeRun(_, _, _, _, _, _, _, _, _)
MergeRun(L, R, i, j, run, fuel, rand, score, den) ==
    IF fuel = 0 \/ i > Len(L) \/ j > Len(R)
    THEN << i, j, run >>
    ELSE IF OrdKeyLess(rand[R[j] + 1], score[R[j] + 1],
                       rand[L[i] + 1], score[L[i] + 1], den)
         THEN MergeRun(L, R, i, j + 1, Append(run, R[j]), fuel - 1, rand, score, den)
         ELSE MergeRun(L, R, i + 1, j, Append(run, L[i]), fuel - 1, rand, score, den)

\* the merge of the sorted index lists L[i..] and R[j..], appended to out
RECURSIVE Merge(_, _, _, _, _, _, _, _)
Merge(L, R, i, j, out, rand, score, den) ==
    IF i > Len(L) THEN out \o SubSeq(R, j, Len(R))
    ELSE IF j > Len(R) THEN out \o SubSeq(L, i, Len(L))
    ELSE LET st == MergeRun(L, R, i, j, << >>, 16, rand, score, den)
         IN  Merge(L, R, st[1], st[2], out \o st[3], rand, score, den)

\* merge sort of the sample indices lo..hi (0-based) by ordering key
RECURSIVE MergeSort(_, _, _, _, _)
MergeSort(lo, hi, rand, score, den) ==
    IF lo > hi THEN << >>
    ELSE IF lo = hi THEN << lo >>
    ELSE LET mid == (lo + hi) \div 2
         IN  Merge(MergeSort(lo, mid, rand, score, den),
                   MergeSort(mid + 1, hi, rand, score, den),
                   1, 1, << >>, rand, score, den)

\* the sort run over all samples but the last
ArgSortShort(rand, score, den) == MergeSort(0, Len(rand) - 2, rand, score, den)

\* np.argsort(ord_key, kind='mergesort') over the per-sample keys
\* rand / (score + eps); elements are 0-based sample indices
ArgSortStable(rand, score, den) == MergeSort(0, Len(rand) - 1, rand, score, den)

\* np.percentile(scores, energy_percentile) is called when
\* energy_percentile > 0 and raises IndexError on an array of no scores
PercentileRaises(n_scores, energy_percentile) == energy_percentile > 0 /\ n_scores = 0

\* generate_order_indices on the samples data of the file at audio_path
GenerateOrderIndices(data, key, frame_size, hop_size, energy_percentile) ==
    LET n      == Len(data)
        edges  == FrameEdges(n, frame_size, hop_size)
        rms    == FrameRms(data, edges)
        scores == NormalizeScores(rms)
        fscore == AttenuatedScores(scores, energy_percentile)
        pss    == PerSampleScore(n, edges, fscore)
        rand   == RandomVector(HashToSeed(key), n)
    IN  ArgSortStable(rand, pss, scores.den)

\* the scatter idx[k] -> k for k in lo..hi, as a function on the indices hit
\* (a[idx] = v assigns v[k] to a[idx[k]])
RECURSIVE ScatterMap(_, _, _)
ScatterMap(idx, lo, hi) ==
    IF lo > hi THEN << >>
    ELSE IF lo = hi THEN idx[lo] :> lo
    ELSE LET mid == (lo + hi) \div 2
         IN  ScatterMap(idx, lo, mid) @@ ScatterMap(idx, mid + 1, hi)

(***************************************************************************)
(* Optional values: a Python result that may be None                       *)
(***************************************************************************)
None == [some |-> FALSE, val |-> << >>]

Some(v) == [some |-> TRUE, val |-> v]

(***************************************************************************)
(* Byte helpers                                                            *)
(***************************************************************************)
BitOf(a, k) == (a \div Pow2(k)) % 2

\* a ^ b on bytes
XorByte(a, b) ==
      ((BitOf(a, 7) + BitOf(b, 7)) % 2) * 128 + ((BitOf(a, 6) + BitOf(b, 6)) % 2) * 64
    + ((BitOf(a, 5) + BitOf(b, 5)) % 2) * 32  + ((BitOf(a, 4) + BitOf(b, 4)) % 2) * 16
    + ((BitOf(a, 3) + BitOf(b, 3)) % 2) * 8   + ((BitOf(a, 2) + BitOf(b, 2)) % 2) * 4
    + ((BitOf(a, 1) + BitOf(b, 1)) % 2) * 2   + ((BitOf(a, 0) + BitOf(b, 0)) % 2)

\* Python slice b[lo:hi] of a sequence (0-based, clipped to the sequence)
Slice(b, lo, hi) == SubSeq(b, lo + 1, Min2(hi, Len(b)))

(***************************************************************************)
(* encrypt.py: AES-CBC with PKCS#7 padding                                 *)
(***************************************************************************)
\* AES.block_size
AES_block_size == 16

\* pad(plaintext, AES.block_size)
Pad(data) ==
    LET p == AES_block_size - (Len(data) % AES_block_size)
    IN  data \o AsSeq([k \in 1..p |-> p])

\* unpad(data, AES.block_size): None stands for the ValueError it raises
Unpad(data) ==
    IF Len(data) = 0 \/ Len(data) % AES_block_size # 0 THEN None
    ELSE LET p == data[Len(data)]
         IN  IF p < 1 \/ p > AES_block_size THEN None
             ELSE IF \E k \in (Len(data) - p + 1)..Len(data) : data[k] # p THEN None
             ELSE Some(SubSeq(data, 1, Len(data) - p))

\* the block function of the cipher under key and its inverse (a keyed,
\* invertible substitution and rotation of the 16 bytes standing for AES)
BlockEncrypt(key, blk) ==
    AsSeq([k \in 1..AES_block_size |->
        LET src == (k % AES_block_size) + 1
        IN  (blk[src] + key[((src - 1) % Len(key)) + 1] + src) % 256])

BlockDecrypt(key, blk) ==
    AsSeq([k \in 1..AES_block_size |->
        LET dst == ((k + AES_block_size - 2) % AES_block_size) + 1
        IN  (blk[dst] - key[((k - 1) % Len(key)) + 1] - k) % 256])

XorBlock(a, b) == AsSeq([k \in 1..AES_block_size |-> XorByte(a[k], b[k])])

\* CBC encryption of the blocks data[16*(bi-1)+1 ..], chained from prev
RECURSIVE CbcEncrypt(_, _, _, _)
CbcEncrypt(key, data, bi, prev) ==
    IF 16 * (bi - 1) >= Len(data) THEN << >>
    ELSE LET c == BlockEncrypt(key, XorBlock(SubSeq(data, 16 * bi - 15, 16 * bi), prev))
         IN  c \o CbcEncrypt(key, data, bi + 1, c)

\* CBC decryption of ct (a whole number of blocks) chained from iv
CbcDecrypt(key, ct, iv) ==
    LET prev(bi) == IF bi = 1 THEN iv ELSE SubSeq(ct, 16 * bi - 31, 16 * bi - 16)
        blk(bi)  == XorBlock(BlockDecrypt(key, SubSeq(ct, 16 * bi - 15, 16 * bi)), prev(bi))
    IN  AsSeq([k \in 1..Len(ct) |-> blk(((k - 1) \div 16) + 1)[((k - 1) % 16) + 1]])

\* aes_encrypt with the IV that get_random_bytes(16) returned
aes_encrypt(plaintext, key, iv) == iv \o CbcEncrypt(key, Pad(plaintext), 1, iv)

\* aes_decrypt: None stands for any exception it raises (a short IV, a
\* ciphertext that is not whole blocks, an incorrect padding)
aes_decrypt(iv_ct, key) ==
    LET iv == Slice(iv_ct, 0, 16)
        ct == Slice(iv_ct, 16, Len(iv_ct))
    IN  IF Len(iv) # 16 \/ Len(ct) % AES_block_size # 0 THEN None
        ELSE Unpad(CbcDecrypt(key, ct, iv))

(***************************************************************************)
(* robust_payload.py: CRC32 + repetition + interleaving                    *)
(***************************************************************************)
\* _MAGIC = b"RBST"
MAGIC == << 82, 66, 83, 84 >>

\* the reflected CRC-32 polynomial 0xEDB88320, most significant bit first
CrcPoly == BytesToBits(<< 237, 184, 131, 32 >>)

\* cnt shift steps of the CRC register (32 bits, most significant first)
RECURSIVE CrcShift(_, _)
CrcShift(reg, cnt) ==
    IF cnt = 0 THEN reg
    ELSE LET sh == << 0 >> \o SubSeq(reg, 1, 31)
         IN  CrcShift(IF reg[32] = 1
                      THEN AsSeq([k \in 1..32 |-> (sh[k] + CrcPoly[k]) % 2])
                      ELSE sh,
                      cnt - 1)

\* the register after one more input byte
CrcByte(reg, byte) ==
    CrcShift(AsSeq([k \in 1..32 |->
                 IF k <= 24 THEN reg[k] ELSE (reg[k] + BitOf(byte, 32 - k)) % 2]), 8)

\* the register after the bytes b[lo..hi]
RECURSIVE CrcRange(_, _, _, _)
CrcRange(reg, b, lo, hi) ==
    IF lo > hi THEN reg
    ELSE IF lo = hi THEN CrcByte(reg, b[lo])
    ELSE LET mid  == (lo + hi) \div 2
             left == CrcRange(reg, b, lo, mid)
         IN  IF Len(left) = 32 THEN CrcRange(left, b, mid + 1, hi) ELSE << >>

\* zlib.crc32(payload) & 0xFFFFFFFF as its 4 big-endian bytes
Crc32(payload) ==
    LET fin == CrcRange(AsSeq([k \in 1..32 |-> 1]), payload, 1, Len(payload))
    IN  BitsToBytes(AsSeq([k \in 1..32 |-> 1 - fin[k]]))

\* _seed_from(key, nbits, repeat)
SeedFrom(key, nbits, repeat) ==
    (Digest(key \o MAGIC) * 131 + nbits * 17 + repeat * 7) % 65521

RECURSIVE Gcd(_, _)
Gcd(a, b) == IF b = 0 THEN a ELSE Gcd(b, a % b)

\* rng.permutation(m) of default_rng(seed): a permutation of 0..m-1 fixed by
\* (seed, m), here i -> (a*i + b) mod m with a coprime to m
Permutation(seed, m) ==
    LET a0 == ((seed * 89) % m) + 1
        cs == {c \in a0..Min2(a0 + 30, m) : Gcd(c, m) = 1}
        a  == IF cs = {} THEN 1 ELSE CHOOSE c \in cs : \A d \in cs : c <= d
        b  == (seed * 7 + 3) % m
    IN  AsSeq([i \in 1..m |-> (a * (i - 1) + b) % m])

\* inv with inv[perm] = arange(size)
InversePermutation(perm) ==
    LET at == ScatterMap(perm, 1, Len(perm))
    IN  AsSeq([j \in 1..Len(perm) |-> at[j - 1] - 1])

\* the checks of repeat that raise ValueError in encode_payload / decode_payload
RepeatInvalid(repeat) == repeat < 1 \/ repeat % 2 = 0

\* the encoding that permutes the bits whatever interleave says
encode_payload_permuting(payload, key, repeat, interleave) ==
    LET inner == MAGIC \o ToBytes4(Len(payload)) \o Crc32(payload) \o payload
        bits  == BytesToBits(inner)
        rep   == AsSeq([k \in 1..(Len(bits) * repeat) |-> bits[((k - 1) \div repeat) + 1]])
        perm  == Permutation(SeedFrom(key, Len(rep), repeat), Len(rep))
    IN  BitsToBytes(AsSeq([k \in 1..Len(rep) |-> rep[perm[k] + 1]]))

\* the encoding that repeats the bits of the payload and not those of the header
encode_payload_header_once(payload, key, repeat, interleave) ==
    LET header == MAGIC \o ToBytes4(Len(payload)) \o Crc32(payload)
        inner  == header \o payload
        pbits  == BytesToBits(payload)
        rep    == BytesToBits(header)
                  \o AsSeq([k \in 1..(Len(pbits) * repeat) |-> pbits[((k - 1) \div repeat) + 1]])
        perm   == Permutation(SeedFrom(key, Len(rep), repeat), Len(rep))
    IN  IF repeat = 1 /\ ~interleave THEN inner
        ELSE IF interleave /\ Len(rep) > 0
             THEN BitsToBytes(AsSeq([k \in 1..Len(rep) |-> rep[perm[k] + 1]]))
             ELSE BitsToBytes(rep)

\* encode_payload for a valid repeat
encode_payload(payload, key, repeat, interleave) ==
    LET header == MAGIC \o ToBytes4(Len(payload)) \o Crc32(payload)
        inner  == header \o payload
        bits   == BytesToBits(inner)
        rep    == AsSeq([k \in 1..(Len(bits) * repeat) |-> bits[((k - 1) \div repeat) + 1]])
        perm   == Permutation(SeedFrom(key, Len(rep), repeat), Len(rep))
    IN  IF repeat = 1 /\ ~interleave THEN inner
        ELSE IF interleave /\ Len(rep) > 0
             THEN BitsToBytes(AsSeq([k \in 1..Len(rep) |-> rep[perm[k] + 1]]))
             ELSE BitsToBytes(rep)

\* the vote with the comparison turned around
MajorityVoteInverted(bits, repeat) ==
    AsSeq([g \in 1..(Len(bits) \div repeat) |->
        LET ones == Cardinality({k \in 1..repeat : bits[(g - 1) * repeat + k] = 1})
        IN  IF ones <= (repeat \div 2) THEN 1 ELSE 0])

\* the vote with the threshold one too high
MajorityVoteStrict(bits, repeat) ==
    AsSeq([g \in 1..(Len(bits) \div repeat) |->
        LET ones == Cardinality({k \in 1..repeat : bits[(g - 1) * repeat + k] = 1})
        IN  IF ones > (repeat \div 2) + 1 THEN 1 ELSE 0])

\* the majority vote over blocks of repeat bits
MajorityVote(bits, repeat) ==
    AsSeq([g \in 1..(Len(bits) \div repeat) |->
        LET ones == Cardinality({k \in 1..repeat : bits[(g - 1) * repeat + k] = 1})
        IN  IF ones >= (repeat \div 2) + 1 THEN 1 ELSE 0])

\* the bytes read least significant first
FromBytesLittle(b) ==
    IF Len(b) = 0 THEN 0
    ELSE IF Len(b) = 4 /\ b[4] > 0 THEN 16777216
    ELSE LET at(k) == IF k <= Len(b) THEN b[k] ELSE 0
         IN  at(1) + 256 * at(2) + 65536 * at(3)

\* int.from_bytes(b, 'big') for up to 4 bytes, saturated at 2^24 (above every
\* byte and sample count of the model) to stay within 31-bit integers
FromBytesBig(b) ==
    IF Len(b) = 0 THEN 0
    ELSE IF Len(b) = 4 /\ b[1] > 0 THEN 16777216
    ELSE LET at(k) == IF k <= Len(b) THEN b[Len(b) + 1 - k] ELSE 0
         IN  at(1) + 256 * at(2) + 65536 * at(3)

\* the frame checks without the CRC comparison
ParseInnerNoCrc(inner) ==
    IF Len(inner) < 12 THEN None
    ELSE IF Slice(inner, 0, 4) # MAGIC THEN None
    ELSE LET msg_len == FromBytesBig(Slice(inner, 4, 8))
             payload == Slice(inner, 12, 12 + msg_len)
         IN  IF Len(payload) # msg_len THEN None
             ELSE Some(payload)

\* the frame checks of decode_payload on the de-interleaved, voted bytes
ParseInner(inner) ==
    IF Len(inner) < 12 THEN None
    ELSE IF Slice(inner, 0, 4) # MAGIC THEN None
    ELSE LET msg_len == FromBytesBig(Slice(inner, 4, 8))
             payload == Slice(inner, 12, 12 + msg_len)
         IN  IF Len(payload) # msg_len THEN None
             ELSE IF Crc32(payload) # Slice(inner, 8, 12) THEN None
             ELSE Some(payload)

\* the de-interleaving that applies the permutation again instead of its inverse
DeinterleaveForward(bits, key, repeat, interleave) ==
    IF interleave /\ Len(bits) > 0
    THEN LET perm == Permutation(SeedFrom(key, Len(bits), repeat), Len(bits))
         IN  AsSeq([k \in 1..Len(bits) |-> bits[perm[k] + 1]])
    ELSE bits

\* the bits of encoded in de-interleaved order
Deinterleave(bits, key, repeat, interleave) ==
    IF interleave /\ Len(bits) > 0
    THEN LET inv == InversePermutation(Permutation(SeedFrom(key, Len(bits), repeat), Len(bits)))
         IN  AsSeq([k \in 1..Len(bits) |-> bits[inv[k] + 1]])
    ELSE bits

\* decode_payload for a valid repeat: the payload or None
decode_payload(encoded, key, repeat, interleave) ==
    LET bits == Deinterleave(BytesToBits(encoded), key, repeat, interleave)
    IN  IF repeat = 1 THEN ParseInner(BitsToBytes(bits))
        ELSE IF Len(bits) % repeat # 0 THEN None
        ELSE ParseInner(BitsToBytes(MajorityVote(bits, repeat)))

(***************************************************************************)
(* embed.py / extract.py: the adaptive keyed variant                       *)
(***************************************************************************)
\* PREAMBLE = b"ASTG"
PREAMBLE == << 65, 83, 84, 71 >>

\* x | bit: the bit set without the old one cleared
SetLsbNoClear(sample, bit) == IF sample % 2 = 1 THEN sample ELSE sample + bit

\* x + bit
SetLsbAdd(sample, bit) == sample + bit

\* (x & ~1) | bit on an int16 sample
SetLsb(sample, bit) == sample - (sample % 2) + bit

\* x & 1 on an int16 sample
Lsb(sample) == sample % 2

\* _capacity_from_order
CapacityFromOrder(order_len) == Max2(0, order_len - (Len(PREAMBLE) + 4) * 8) \div 8

\* the robust layer applied only for robust_repeat > 1
RobustEnabledRepeatOnly(robust_repeat, robust_interleave) == robust_repeat > 1

\* the robust layer is applied when robust_repeat > 1 or not robust_interleave
RobustEnabled(robust_repeat, robust_interleave) == robust_repeat > 1 \/ ~robust_interleave

\* flat = data.copy(); flat[indices] = (flat[indices] & ~1) | bits
WriteLsbs(data, order, bits) ==
    LET at == ScatterMap(order, 1, Len(bits))
        hit == DOMAIN at
    IN  AsSeq([i \in 1..Len(data) |->
            IF (i - 1) \in hit THEN SetLsb(data[i], bits[at[i - 1]]) ELSE data[i]])

\* the bits read from the first count samples, not along the order
ReadLsbsSequential(data, order, count) ==
    AsSeq([k \in 1..Min2(count, Len(data)) |-> Lsb(data[k])])

\* (data[order[:count]] & 1) as a bit array
ReadLsbs(data, order, count) ==
    AsSeq([k \in 1..Min2(count, Len(order)) |-> Lsb(data[order[k] + 1])])

\* the capacity check that also refuses an exact fit
ExceedsCapacityOrEqual(nbits, order_size) == nbits >= order_size

\* bits.size > order.size, the capacity check
ExceedsCapacity(nbits, order_size) == nbits > order_size

\* the capacity check placed after the write, on the buffer itself
FrameAndWriteInPlace(data, order, payload) ==
    LET bits == BytesToBits(PREAMBLE \o ToBytes4(Len(payload)) \o payload)
        flat == WriteLsbs(data, order, SubSeq(bits, 1, Min2(Len(bits), Len(order))))
    IN  IF ExceedsCapacity(Len(bits), Len(order))
        THEN [ret |-> "ValueError_capacity", written |-> Some(flat), data |-> flat,
              bits |-> bits]
        ELSE [ret |-> "returned", written |-> Some(flat), data |-> flat, bits |-> bits]

\* the framing, the capacity check and the write of embed_adaptive_keyed:
\* how the call ends (ret), the file written (written, None when no file is
\* written), the buffer data as the call leaves it, and the framed bits
FrameAndWrite(data, order, payload) ==
    LET bits == BytesToBits(PREAMBLE \o ToBytes4(Len(payload)) \o payload)
    IN  IF ExceedsCapacity(Len(bits), Len(order))
        THEN [ret |-> "ValueError_capacity", written |-> None, data |-> data,
              bits |-> bits]
        ELSE [ret |-> "returned", written |-> Some(WriteLsbs(data, order, bits)),
              data |-> data, bits |-> bits]

\* np.where(embed_map)[0] on embed_map[lo..hi]: the 0-based indices of its
\* true entries, increasing
RECURSIVE Where(_, _, _)
Where(embed_map, lo, hi) ==
    IF lo > hi THEN << >>
    ELSE IF lo = hi THEN (IF embed_map[lo] THEN << lo - 1 >> ELSE << >>)
    ELSE LET mid == (lo + hi) \div 2
         IN  Where(embed_map, lo, mid) \o Where(embed_map, mid + 1, hi)

\* the write of embed_lsb made on the buffer read, with no copy
LsbWriteNoCopy(data, indices, bits) ==
    IF \E k \in 1..Len(indices) : indices[k] >= Len(data)
    THEN [ret |-> "IndexError", written |-> None, data |-> data]
    ELSE [ret |-> "returned", written |-> Some(WriteLsbs(data, indices, bits)),
          data |-> WriteLsbs(data, indices, bits)]

\* flat = data.copy(); flat[indices] = (flat[indices] & ~1) | bits; sf.write:
\* an index beyond the buffer raises IndexError before anything is written
LsbWrite(data, indices, bits) ==
    IF \E k \in 1..Len(indices) : indices[k] >= Len(data)
    THEN [ret |-> "IndexError", written |-> None, data |-> data]
    ELSE [ret |-> "returned", written |-> Some(WriteLsbs(data, indices, bits)),
          data |-> data]

\* embed_lsb on the samples data (embed_map is None or Some(boolean array)):
\* how the call ends (ret), the file written (written), the buffer data as
\* the call leaves it, the framed bits and the indices chosen
embed_lsb(data, payload_bytes, embed_map) ==
    LET bits == BytesToBits(PREAMBLE \o ToBytes4(Len(payload_bytes)) \o payload_bytes)
        n_samples == Len(data)
        avail == IF embed_map.some THEN Where(embed_map.val, 1, Len(embed_map.val))
                 ELSE AsSeq([k \in 1..n_samples |-> k - 1])
    IN  IF Len(bits) > Len(avail)
        THEN [ret |-> "ValueError", written |-> None, data |-> data, bits |-> bits,
              indices |-> avail]
        ELSE LET indices == SubSeq(avail, 1, Len(bits))
                 out == LsbWrite(data, indices, bits)
             IN  [ret |-> out.ret, written |-> out.written, data |-> out.data,
                  bits |-> bits, indices |-> indices]

\* data[:stop]: the number of samples a slice up to stop takes from n samples
SliceStop(n, stop) == IF stop >= 0 THEN Min2(stop, n) ELSE Max2(n + stop, 0)

\* bytes_all.find(pattern) over the start offsets from..(len - len(pattern)):
\* the first offset (0-based) where pattern occurs, -1 when there is none
RECURSIVE FindFrom(_, _, _)
FindFrom(bytes_all, pattern, from) ==
    IF from + Len(pattern) > Len(bytes_all) THEN -1
    ELSE IF SubSeq(bytes_all, from + 1, from + Len(pattern)) = pattern THEN from
    ELSE FindFrom(bytes_all, pattern, from + 1)

\* the parse of extract_lsb that takes the length from the first byte after
\* the preamble
ParseBasicShortLength(bytes_all) ==
    LET idx == FindFrom(bytes_all, PREAMBLE, 0)
    IN  IF idx = -1 \/ idx + 8 > Len(bytes_all) THEN None
        ELSE LET length == bytes_all[idx + 5]
             IN  IF idx + 8 + length > Len(bytes_all) THEN None
                 ELSE Some(Slice(bytes_all, idx + 8, idx + 8 + length))

\* extract_lsb from the bytes on: the preamble found with bytes.find, the
\* 4-byte length, the payload; None when one of them is missing
ParseBasic(bytes_all) ==
    LET idx   == FindFrom(bytes_all, PREAMBLE, 0)
        start == idx + Len(PREAMBLE)
    IN  IF idx = -1 THEN None
        ELSE IF start + 4 > Len(bytes_all) THEN None
        ELSE LET length   == FromBytesBig(Slice(bytes_all, start, start + 4))
                 data_end == start + 4 + length
             IN  IF data_end > Len(bytes_all) THEN None
                 ELSE Some(Slice(bytes_all, start + 4, data_end))

\* extract_lsb on the samples data (embed_map is None or Some(boolean array)):
\* how the call ends (ret), the value returned and the bytes read; a boolean
\* index of another length than data raises IndexError
extract_lsb(data, max_payload_bytes, embed_map) ==
    IF embed_map.some /\ Len(embed_map.val) # Len(data)
    THEN [ret |-> "IndexError", value |-> None, bytes_all |-> << >>]
    ELSE LET bits == IF embed_map.some
                     THEN LET at == Where(embed_map.val, 1, Len(embed_map.val))
                          IN  AsSeq([k \in 1..Len(at) |-> Lsb(data[at[k] + 1])])
                     ELSE AsSeq([k \in 1..SliceStop(Len(data), 8 * (4 + 4 + max_payload_bytes))
                                    |-> Lsb(data[k])])
             bytes_all == BitsToBytes(bits)
         IN  [ret |-> "returned", value |-> ParseBasic(bytes_all), bytes_all |-> bytes_all]

\* sum of |data[lo..hi]| (1-based, inclusive)
RECURSIVE SumAbs(_, _, _)
SumAbs(data, lo, hi) ==
    IF lo > hi THEN 0
    ELSE IF lo = hi THEN (IF data[lo] < 0 THEN -data[lo] ELSE data[lo])
    ELSE LET mid == (lo + hi) \div 2
         IN  SumAbs(data, lo, mid) + SumAbs(data, mid + 1, hi)

\* the least common multiple of the frame lengths of edges[lo..hi]
RECURSIVE LcmOfSizes(_, _, _)
LcmOfSizes(edges, lo, hi) ==
    IF lo > hi THEN 1
    ELSE LET rest == LcmOfSizes(edges, lo + 1, hi)
             size == edges[lo][2] - edges[lo][1]
         IN  (size * rest) \div Gcd(size, rest)

\* np.mean(np.abs(frame)) per frame, as numerators over the common
\* denominator of the frame lengths
FrameEnergies(data, edges) ==
    LET den == LcmOfSizes(edges, 1, Len(edges))
    IN  AsSeq([k \in 1..Len(edges) |->
            SumAbs(data, edges[k][1] + 1, edges[k][2])
                * (den \div (edges[k][2] - edges[k][1]))])

\* compute_energy_mask on a non-empty buffer: the frames data[i:i+frame_size]
\* for i = 0, hop_size, ..., the frames whose energy is at least the
\* percentile of the energies, and the samples of those frames
compute_energy_mask(data, frame_size, hop_size, percentile) ==
    LET n        == Len(data)
        frames   == FrameEdges(n, frame_size, hop_size)
        energies == FrameEnergies(data, frames)
        below    == BelowPercentile(energies, percentile)
    IN  AsSeq([i \in 1..n |->
            \E k \in 1..Len(frames) :
                ~below[k] /\ frames[k][1] <= i - 1 /\ i - 1 < frames[k][2]])

\* embed_adaptive_keyed on the samples data with the IV the cipher drew:
\* how the call ends (ret), the file written (written) and its locals
EmbedAdaptiveKeyed(data, a, iv) ==
    LET order  == GenerateOrderIndices(data, a.user_key, a.frame_size, a.hop_size,
                                       a.energy_percentile)
        cipher == IF a.encrypt THEN aes_encrypt(a.plaintext, a.user_key, iv)
                               ELSE a.plaintext
        robust == RobustEnabled(a.robust_repeat, a.robust_interleave)
    IN  IF robust /\ RepeatInvalid(a.robust_repeat)
        THEN [ret |-> "ValueError_repeat", written |-> None, data |-> data,
              order |-> order, payload |-> cipher, bits |-> << >>]
        ELSE LET payload == IF robust
                            THEN encode_payload(cipher, a.user_key, a.robust_repeat,
                                                a.robust_interleave)
                            ELSE cipher
                 out == FrameAndWrite(data, order, payload)
             IN  [ret |-> out.ret, written |-> out.written, data |-> out.data,
                  order |-> order, payload |-> payload, bits |-> out.bits]

\* the layers undone in the order of the embedding: decryption, then the
\* robust decoding
ExtractLayersDecryptFirst(payload, a) ==
    LET robust == RobustEnabled(a.robust_repeat, a.robust_interleave)
    IN  IF robust /\ RepeatInvalid(a.robust_repeat)
        THEN [ret |-> "ValueError_repeat", value |-> None]
        ELSE LET plain == IF a.decrypt THEN aes_decrypt(payload, a.user_key)
                          ELSE Some(payload)
             IN  IF ~plain.some THEN [ret |-> "returned", value |-> None]
                 ELSE IF robust
                      THEN [ret |-> "returned",
                            value |-> decode_payload(plain.val, a.user_key,
                                                     a.robust_repeat, a.robust_interleave)]
                      ELSE [ret |-> "returned", value |-> plain]

\* the part of extract_adaptive_keyed after the payload bytes are read
ExtractLayers(payload, a) ==
    LET robust == RobustEnabled(a.robust_repeat, a.robust_interleave)
    IN  IF robust /\ RepeatInvalid(a.robust_repeat)
        THEN [ret |-> "ValueError_repeat", value |-> None]
        ELSE LET decoded == IF robust
                            THEN decode_payload(payload, a.user_key, a.robust_repeat,
                                                a.robust_interleave)
                            ELSE Some(payload)
             IN  IF ~decoded.some THEN [ret |-> "returned", value |-> None]
                 ELSE IF a.decrypt
                      THEN [ret |-> "returned", value |-> aes_decrypt(decoded.val, a.user_key)]
                      ELSE [ret |-> "returned", value |-> decoded]

\* extract_adaptive_keyed on the samples data: how the call ends (ret), the
\* value returned (value, None for Python's None) and its locals
ExtractAdaptiveKeyed(data, a) ==
    LET order == GenerateOrderIndices(data, a.user_key, a.frame_size, a.hop_size,
                                      a.energy_percentile)
        header_bytes == BitsToBytes(ReadLsbs(data, order, 64))
        length == FromBytesBig(Slice(header_bytes, 4, 8))
        total_bits == 64 + length * 8
    IN  IF Slice(header_bytes, 0, 4) # PREAMBLE
        THEN [ret |-> "returned", value |-> None, order |-> order,
              header_bytes |-> header_bytes, payload |-> << >>, stage |-> "preamble"]
        ELSE IF total_bits > Len(order)
        THEN [ret |-> "returned", value |-> None, order |-> order,
              header_bytes |-> header_bytes, payload |-> << >>, stage |-> "capacity"]
        ELSE LET bytes_all == BitsToBytes(ReadLsbs(data, order, total_bits))
                 payload   == Slice(bytes_all, 8, 8 + length)
                 out       == ExtractLayers(payload, a)
             IN  [ret |-> out.ret, value |-> out.value, order |-> order,
                  header_bytes |-> header_bytes, payload |-> payload, stage |-> "layers"]

(***************************************************************************)
(* Inputs of the model                                                     *)
(***************************************************************************)
\* number of user keys
NumKeys == 2

\* longest plaintext, in bytes
MaxPlainLen == 1

\* number of IVs get_random_bytes may return
NumIVs == 2

\* samples a cover may have beyond the framed bit length
Slack == 8

\* user_key: 16 raw bytes
KeyOf(k) == AsSeq([i \in 1..16 |-> (k * 37 + i * 11) % 256])

Keys == {KeyOf(k) : k \in 1..NumKeys}

IvOf(k) == AsSeq([i \in 1..16 |-> (k * 101 + i * 29) % 256])

IVs == {IvOf(k) : k \in 1..NumIVs}

PlainOf(len) == AsSeq([i \in 1..len |-> 71 + i])

Plaintexts == {PlainOf(len) : len \in 1..MaxPlainLen}

\* cover signals of n samples: silence, a loud tone, silence then the tone,
\* and ("extremes") the tone at every 8th sample with the ends of the int16
\* range at the samples between
CoverOf(shape, n) ==
    AsSeq([i \in 1..n |->
        LET tone == ((i * 7) % 23) - 11
        IN  CASE shape = "silent" -> 0
              [] shape = "loud"   -> tone
              [] shape = "extremes" ->
                    IF i % 8 = 1 THEN tone
                    ELSE CASE i % 4 = 0 -> -32768
                           [] i % 4 = 1 -> 32767
                           [] i % 4 = 2 -> -32767
                           [] OTHER     -> 32766
              [] OTHER            -> IF 2 * i <= n THEN 0 ELSE tone])

Shapes == {"silent", "loud", "silent_then_loud"}

\* (frame_size, hop_size): the defaults, and short frames so that a small
\* buffer has several
FrameSettings == { << 1024, 512 >>, << 32, 16 >> }

Percentiles == {0, 20}

\* (robust_repeat, robust_interleave), valid and invalid
RobustSettings ==
    { << 1, TRUE >>, << 1, FALSE >>, << 3, TRUE >>, << 3, FALSE >>,
      << 2, TRUE >>, << 0, TRUE >>, << 0, FALSE >> }

EmbedArgs(pt, key, fs, pct, enc, rb) ==
    [plaintext |-> pt, user_key |-> key, frame_size |-> fs[1], hop_size |-> fs[2],
     energy_percentile |-> pct, encrypt |-> enc,
     robust_repeat |-> rb[1], robust_interleave |-> rb[2]]

\* len(payload) in embed_adaptive_keyed for a plaintext of len bytes
PayloadLen(len, enc, rb) ==
    LET c == IF enc THEN 16 + ((len \div 16) + 1) * 16 ELSE len
    IN  IF ~RobustEnabled(rb[1], rb[2]) \/ RepeatInvalid(rb[1]) THEN c
        ELSE IF rb[1] = 1 /\ ~rb[2] THEN 12 + c
        ELSE rb[1] * (12 + c)

\* the number of samples the framed payload needs
NeedBits(len, enc, rb) == 64 + 8 * PayloadLen(len, enc, rb)

\* calls that vary the analysis of the signal, on covers around the capacity
\* of the plain framed message and on a buffer shorter than the header
AnalysisCalls ==
    UNION { { [cover |-> CoverOf(sh, n),
               args  |-> EmbedArgs(pt, key, fs, pct, FALSE, << 1, TRUE >>)] :
                sh \in Shapes,
                n \in {40, NeedBits(Len(pt), FALSE, << 1, TRUE >>) - 1,
                       NeedBits(Len(pt), FALSE, << 1, TRUE >>),
                       NeedBits(Len(pt), FALSE, << 1, TRUE >>) + Slack},
                key \in Keys, fs \in FrameSettings, pct \in Percentiles } :
            pt \in Plaintexts }

\* calls that vary the layers of the payload, on covers at the capacity
\* boundary of each
LayerCalls ==
    UNION { { [cover |-> CoverOf("loud", NeedBits(Len(pt), enc, rb) - d),
               args  |-> EmbedArgs(pt, KeyOf(1), << 1024, 512 >>, 0, enc, rb)] :
                d \in {0, 1} } :
            pt \in Plaintexts, enc \in BOOLEAN, rb \in RobustSettings }

\* calls on covers that hold the extreme int16 values, with one-sample
\* frames at every 8th sample, in a cover the message fills and a longer one
ExtremeCalls ==
    UNION { { [cover |-> CoverOf("extremes", NeedBits(Len(pt), FALSE, << 1, TRUE >>) + d),
               args  |-> EmbedArgs(pt, KeyOf(1), << 1, 8 >>, 0, FALSE, << 1, TRUE >>)] :
                d \in {0, Slack} } :
            pt \in Plaintexts }

\* embed_map arrays for a buffer of n samples: every sample, every other
\* sample, and an array longer than the buffer
MapOf(kind, n) ==
    CASE kind = "all"  -> AsSeq([i \in 1..n |-> TRUE])
      [] kind = "even" -> AsSeq([i \in 1..n |-> i % 2 = 1])
      [] OTHER         -> AsSeq([i \in 1..(n + Slack) |-> TRUE])

\* the calls of embed_lsb on a cover of n samples
LsbCalls(n) ==
    { [payload_bytes |-> pt, embed_map |-> m] :
        pt \in Plaintexts,
        m \in {None} \cup {Some(MapOf(kind, n)) : kind \in {"all", "even", "long"}} }

\* (frame_size, hop_size, percentile) of compute_energy_mask: short frames with
\* the percentile of the demo, the frames of the demo, every frame accepted
MaskSettings == { << 16, 8, 55 >>, << 2048, 1024, 55 >>, << 16, 16, 0 >> }

\* the covers of the sessions of the basic variant
BasicCovers == {CoverOf(sh, n) : sh \in Shapes, n \in {72, 160, 208}}

\* the calls of embed_lsb of the basic sessions: no map, every sample, every
\* other sample, and the masks compute_energy_mask gives for the cover
BasicCalls(cover) ==
    { [payload_bytes |-> pt, embed_map |-> m] :
        pt \in Plaintexts,
        m \in {None} \cup {Some(MapOf(kind, Len(cover))) : kind \in {"all", "even"}}
              \cup {Some(compute_energy_mask(cover, ms[1], ms[2], ms[3])) :
                        ms \in MaskSettings} }

\* the calls of extract_lsb after an embed_lsb call: max_payload_bytes around
\* the payload length and the 200 of the demo, without a map and with the map
\* of the embedding
BasicExtractCalls(a) ==
    { [max_payload_bytes |-> mx, embed_map |-> m] :
        mx \in {0, Max2(Len(a.payload_bytes) - 1, 0), Len(a.payload_bytes),
                Len(a.payload_bytes) + Slack, 200},
        m \in {None, a.embed_map} }

\* calls with an empty plaintext, on a buffer shorter than the header, on one
\* the header fills and on a longer one
EmptyCalls ==
    { [cover |-> CoverOf("loud", n),
       args  |-> EmbedArgs(<< >>, KeyOf(1), << 1024, 512 >>, 0, FALSE, << 1, TRUE >>)] :
        n \in {40, NeedBits(0, FALSE, << 1, TRUE >>),
               NeedBits(0, FALSE, << 1, TRUE >>) + Slack} }

EmbedCalls == AnalysisCalls \cup LayerCalls \cup ExtremeCalls \cup EmptyCalls

\* longest buffer of the calls of generate_order_indices on their own
MaxOrderLen == 12

\* (frame_size, hop_size) for short buffers: overlapping frames, gaps between
\* frames (hop_size > frame_size), adjacent frames, one-sample frames, the
\* defaults
OrderFrameSettings == { << 4, 2 >>, << 2, 4 >>, << 3, 3 >>, << 1, 1 >>, << 1024, 512 >> }

OrderPercentiles == {0, 20, 50, 99}

OrderArgs(data, key, fs, pct) ==
    [data |-> data, key |-> key, frame_size |-> fs[1], hop_size |-> fs[2],
     energy_percentile |-> pct]

\* the calls of generate_order_indices on short buffers, the empty one included
\* a key for which two of the first random draws (samples 0 and 6) are equal
TieKey == AsSeq([i \in 1..16 |-> (1 + 191 * i) % 256])

OrderKeys == Keys \cup {TieKey}

OrderCalls ==
    { OrderArgs(CoverOf(sh, n), key, fs, pct) :
        sh \in Shapes, n \in 0..MaxOrderLen, key \in OrderKeys,
        fs \in OrderFrameSettings, pct \in OrderPercentiles }

\* longest payload handed to encode_payload on its own, in bytes
MaxPayloadLen == 2

\* number of payloads of each length
NumPayloads == 2

PayloadOf(len, v) == AsSeq([i \in 1..len |-> (v * 53 + i * 97) % 256])

Payloads == {PayloadOf(len, v) : len \in 0..MaxPayloadLen, v \in 1..NumPayloads}

\* repetition factors, valid (odd, >= 1) and invalid
CodecRepeats == {1, 3, 5, 0, 2, -1}

CodecCalls ==
    { [payload |-> x, key |-> key, repeat |-> r, interleave |-> il] :
        x \in Payloads, key \in Keys, r \in CodecRepeats, il \in BOOLEAN }

\* number of strides of the bit-flip patterns
NumStrides == 3

\* bit-flip patterns of the channel, block by block of the repeated stream:
\* at most one flipped bit in each block, or two
FlipPatterns ==
    { [kind |-> "one_per_block", a |-> a, b |-> b] : a \in 0..(NumStrides - 1), b \in 0..3 }
    \cup { [kind |-> "two_per_block", a |-> a, b |-> b] : a \in 0..(NumStrides - 1), b \in 0..2 }

NoFlips == [kind |-> "none", a |-> 0, b |-> 0]

\* whether pattern pat flips bit j (0-based) of the repeated stream: in block
\* g = j div repeat, "one_per_block" flips the position (a*g + b) mod
\* (repeat + 1) when that is a position of the block, "two_per_block" the
\* position (a*g + b) mod repeat and the next one (cyclically)
FlipsAt(pat, repeat, j) ==
    LET g   == j \div repeat
        pos == j % repeat
    IN  CASE pat.kind = "one_per_block" -> pos = (pat.a * g + pat.b) % (repeat + 1)
          [] pat.kind = "two_per_block" ->
                LET q == (pat.a * g + pat.b) % repeat
                IN  pos = q \/ pos = (q + 1) % repeat
          [] OTHER -> FALSE

\* the encoded bytes after the channel flipped the bits of pattern pat; the
\* pattern is laid on the stream before interleaving, so bit k of the encoded
\* stream is flipped when the bit perm[k] it carries is
Corrupted(encoded, key, repeat, interleave, pat) ==
    LET bits == BytesToBits(encoded)
        m    == Len(bits)
        perm == IF interleave /\ m > 0
                THEN Permutation(SeedFrom(key, m, repeat), m)
                ELSE AsSeq([k \in 1..m |-> k - 1])
    IN  BitsToBytes(AsSeq([k \in 1..m |->
            IF FlipsAt(pat, repeat, perm[k]) THEN 1 - bits[k] ELSE bits[k]]))

\* the byte string whose de-interleaved, voted frame is inner: the frame
\* repeated and interleaved as encode_payload does with its own frame
Transmit(inner, key, repeat, interleave) ==
    LET bits == BytesToBits(inner)
        rep  == AsSeq([k \in 1..(Len(bits) * repeat) |-> bits[((k - 1) \div repeat) + 1]])
        perm == Permutation(SeedFrom(key, Len(rep), repeat), Len(rep))
    IN  IF repeat = 1 /\ ~interleave THEN inner
        ELSE IF interleave /\ Len(rep) > 0
             THEN BitsToBytes(AsSeq([k \in 1..Len(rep) |-> rep[perm[k] + 1]]))
             ELSE BitsToBytes(rep)

\* frames a sender other than encode_payload may put on the channel for the
\* payload x: empty, shorter than the 12-byte header, well formed with bytes
\* after the payload, with a wrong magic, with a length beyond the bytes
\* present, with a length of more than 3 bytes, with a wrong CRC, with a
\* length one short of the payload the CRC was taken over
InjectedFrames(x) ==
    LET crc == Crc32(x)
    IN  { << >>, MAGIC, MAGIC \o ToBytes4(Len(x)) \o SubSeq(crc, 1, 3),
          MAGIC \o ToBytes4(Len(x)) \o crc \o x \o << 0, 255 >>,
          << 83, 66, 83, 84 >> \o ToBytes4(Len(x)) \o crc \o x,
          MAGIC \o ToBytes4(Len(x) + 1) \o crc \o x,
          MAGIC \o << 1, 0, 0, 0 >> \o crc \o x,
          MAGIC \o ToBytes4(Len(x)) \o SubSeq(crc, 1, 3) \o << (crc[4] + 1) % 256 >> \o x,
          MAGIC \o ToBytes4(Max2(Len(x) - 1, 0)) \o crc \o x \o << 7 >> }

\* byte strings put on the channel as they are: 13 bytes (104 bits, no
\* multiple of 3 or 5) and one byte
RawInputs == { MAGIC \o << 0, 0, 0, 1, 1, 2, 3, 4, 5 >>, << 170 >> }

\* the byte strings handed to decode_payload that encode_payload did not make
InjectedInputs(a) ==
    RawInputs
    \cup (IF RepeatInvalid(a.repeat) THEN {}
          ELSE {Transmit(f, a.key, a.repeat, a.interleave) : f \in InjectedFrames(a.payload)})

\* the mark of a channel content that encode_payload did not make
Injected == [kind |-> "injected", a |-> 0, b |-> 0]

(***************************************************************************)
(* State                                                                   *)
(***************************************************************************)
VARIABLES
    cover_wav,      \* the samples of the file at cover_wav_path
    embed_args,     \* the arguments of the embed_adaptive_keyed call
    embed_ret,      \* "not_called", "returned" or the error it raised
    embed_local,    \* its locals data, order, payload, bits when it ended
    stego_wav,      \* the file at out_wav_path: None until written
    extract_args,   \* the arguments of the extract_adaptive_keyed call
    extract_ret,    \* "not_called", "returned" or the error it raised
    extract_local,  \* its value returned and its locals when it ended
    lsb_args,       \* the arguments of the embed_lsb call
    lsb_ret,        \* "not_called", "returned" or the error it raised
    lsb_local,      \* its locals data, bits, indices when it ended
    lsb_wav,        \* the file at the out_wav_path of embed_lsb
    xlsb_args,      \* the arguments of the extract_lsb call
    xlsb_ret,       \* "not_called", "returned" or the error it raised
    xlsb_local,     \* its value returned and its local bytes_all
    order_args,     \* the arguments of a generate_order_indices call
    order_ret,      \* the order it returned: None until it returns
    codec_args,     \* the arguments of encode_payload and decode_payload
    codec_pc,       \* "start", "encoded", "corrupted", "injected", "decoded",
                    \* "ValueError"
    encoded,        \* the bytes encode_payload returned
    flips,          \* the pattern of bits the channel flipped
    channel,        \* the bytes handed to decode_payload
    decode_local    \* decode_payload's result and its locals bits, inner_bits

lsb_vars == << lsb_args, lsb_ret, lsb_local, lsb_wav, xlsb_args, xlsb_ret, xlsb_local >>

stego_vars == << cover_wav, embed_args, embed_ret, embed_local, stego_wav,
                 extract_args, extract_ret, extract_local, lsb_vars >>

order_vars == << order_args, order_ret >>

codec_vars == << codec_args, codec_pc, encoded, flips, channel, decode_local >>

vars == << stego_vars, order_vars, codec_vars >>

NoEmbedArgs == EmbedArgs(<< >>, << >>, << 0, 0 >>, 0, FALSE, << 0, FALSE >>)

NoEmbedLocal == [data |-> << >>, order |-> << >>, payload |-> << >>, bits |-> << >>]

NoExtractLocal ==
    [value |-> None, order |-> << >>, header_bytes |-> << >>, payload |-> << >>,
     stage |-> "none"]

NoExtractArgs ==
    [source |-> "none", user_key |-> << >>, frame_size |-> 0, hop_size |-> 0,
     energy_percentile |-> 0, decrypt |-> FALSE, robust_repeat |-> 0,
     robust_interleave |-> FALSE]

\* the call of generate_order_indices ended with the IndexError of np.percentile
OrderRaised == [some |-> FALSE, error |-> "IndexError"]

NoOrderArgs == OrderArgs(<< >>, << >>, << 0, 0 >>, 0)

NoCodecArgs == [payload |-> << >>, key |-> << >>, repeat |-> 0, interleave |-> FALSE]

NoDecodeLocal == [result |-> None, bits |-> << >>, inner_bits |-> << >>]

NoLsbArgs == [payload_bytes |-> << >>, embed_map |-> None]

NoLsbLocal == [data |-> << >>, bits |-> << >>, indices |-> << >>]

NoXlsbArgs == [max_payload_bytes |-> 0, embed_map |-> None]

NoXlsbLocal == [value |-> None, bytes_all |-> << >>]

\* embed_lsb and extract_lsb have not been called
LsbIdle ==
    /\ lsb_args = NoLsbArgs
    /\ lsb_ret = "not_called"
    /\ lsb_local = NoLsbLocal
    /\ lsb_wav = None
    /\ xlsb_args = NoXlsbArgs
    /\ xlsb_ret = "not_called"
    /\ xlsb_local = NoXlsbLocal

\* no embedding or extraction is under way
StegoIdle ==
    /\ LsbIdle
    /\ cover_wav = << >>
    /\ embed_args = NoEmbedArgs
    /\ embed_ret = "not_called"
    /\ embed_local = NoEmbedLocal
    /\ stego_wav = None
    /\ extract_args = NoExtractArgs
    /\ extract_ret = "not_called"
    /\ extract_local = NoExtractLocal

\* no call of generate_order_indices on its own is under way
OrderIdle ==
    /\ order_args = NoOrderArgs
    /\ order_ret = None

\* no call of the robust codec on its own is under way
CodecIdle ==
    /\ codec_args = NoCodecArgs
    /\ codec_pc = "idle"
    /\ encoded = << >>
    /\ flips = NoFlips
    /\ channel = << >>
    /\ decode_local = NoDecodeLocal

(***************************************************************************)
(* Embedding and extraction                                                *)
(***************************************************************************)
Init ==
    /\ \E c \in EmbedCalls : cover_wav = c.cover /\ embed_args = c.args
    /\ embed_ret = "not_called"
    /\ embed_local = NoEmbedLocal
    /\ stego_wav = None
    /\ extract_args = NoExtractArgs
    /\ extract_ret = "not_called"
    /\ extract_local = NoExtractLocal
    /\ LsbIdle
    /\ OrderIdle
    /\ CodecIdle

\* embed_adaptive_keyed(cover_wav_path, plaintext, out_wav_path, user_key, ...)
Embed ==
    /\ embed_ret = "not_called"
    /\ \E iv \in IF embed_args.encrypt THEN IVs ELSE {IvOf(1)} :
       \E out \in {EmbedAdaptiveKeyed(cover_wav, embed_args, iv)} :
          /\ embed_ret' = out.ret
          /\ embed_local' = [data |-> out.data, order |-> out.order,
                              payload |-> out.payload, bits |-> out.bits]
          /\ stego_wav' = out.written
    /\ UNCHANGED << cover_wav, embed_args, extract_args, extract_ret, extract_local >>
    /\ UNCHANGED << lsb_vars, order_vars, codec_vars >>

\* the extraction arguments that match the embedding
MatchingArgs(source) ==
    [source |-> source, user_key |-> embed_args.user_key,
     frame_size |-> embed_args.frame_size, hop_size |-> embed_args.hop_size,
     energy_percentile |-> embed_args.energy_percentile,
     decrypt |-> embed_args.encrypt, robust_repeat |-> embed_args.robust_repeat,
     robust_interleave |-> embed_args.robust_interleave]

\* files made from the stego file by rewriting the 4-byte length of its
\* header, along the order of the embedding
TamperedSources == {"stego_length_plus_1", "stego_length_minus_1", "stego_length_huge"}

\* the length written into the header of a tampered file
TamperedLength(source, len) ==
    CASE source = "stego_length_plus_1"  -> len + 1
      [] source = "stego_length_minus_1" -> Max2(len - 1, 0)
      [] OTHER                            -> 16777216

\* the samples of the file extract_adaptive_keyed reads
FileRead(source) ==
    CASE source = "stego" -> stego_wav.val
      [] source = "cover" -> cover_wav
      [] OTHER ->
            WriteLsbs(stego_wav.val, embed_local.order,
                      BytesToBits(PREAMBLE \o
                          ToBytes4(TamperedLength(source, Len(embed_local.payload)))))

\* the calls of extract_adaptive_keyed: on the stego file with the embedding's
\* settings, with another key, with another repetition factor, with the
\* other setting of decrypt, on the stego file with a rewritten length field,
\* and on the cover file (audio that holds no message)
ExtractCalls ==
    (IF stego_wav.some
     THEN {MatchingArgs("stego")}
          \cup {[MatchingArgs("stego") EXCEPT !.user_key = k] : k \in Keys}
          \cup {[MatchingArgs("stego") EXCEPT !.robust_repeat = r] : r \in {2, 3}}
          \cup {[MatchingArgs("stego") EXCEPT !.decrypt = ~embed_args.encrypt]}
          \cup {MatchingArgs(src) : src \in TamperedSources}
     ELSE {})
    \cup {MatchingArgs("cover")}

\* extract_adaptive_keyed(stego_wav_path, user_key, ...), called unless the
\* session went on to the basic variant
Extract ==
    /\ embed_ret # "not_called"
    /\ extract_ret = "not_called"
    /\ lsb_ret = "not_called"
    /\ \E a \in ExtractCalls :
       \E out \in {ExtractAdaptiveKeyed(FileRead(a.source), a)} :
          /\ extract_args' = a
          /\ extract_ret' = out.ret
          /\ extract_local' = [value |-> out.value, order |-> out.order,
                               header_bytes |-> out.header_bytes,
                               payload |-> out.payload, stage |-> out.stage]
    /\ UNCHANGED << cover_wav, embed_args, embed_ret, embed_local, stego_wav >>
    /\ UNCHANGED << lsb_vars, order_vars, codec_vars >>

\* embed_lsb(cover_wav_path, payload_bytes, out_wav_path, embed_map): the
\* basic variant, run in a session of its own or, in a session of the
\* adaptive variant, on the same cover file after the adaptive embedding in
\* place of the extraction
EmbedLsb ==
    /\ embed_args # NoEmbedArgs => (embed_ret # "not_called" /\ extract_ret = "not_called")
    /\ lsb_ret = "not_called"
    /\ \E a \in IF embed_args = NoEmbedArgs THEN BasicCalls(cover_wav)
                                            ELSE LsbCalls(Len(cover_wav)) :
       \E out \in {embed_lsb(cover_wav, a.payload_bytes, a.embed_map)} :
          /\ lsb_args' = a
          /\ lsb_ret' = out.ret
          /\ lsb_local' = [data |-> out.data, bits |-> out.bits, indices |-> out.indices]
          /\ lsb_wav' = out.written
    /\ UNCHANGED << cover_wav, embed_args, embed_ret, embed_local, stego_wav,
                    extract_args, extract_ret, extract_local >>
    /\ UNCHANGED << xlsb_args, xlsb_ret, xlsb_local, order_vars, codec_vars >>

Next == Embed \/ Extract \/ EmbedLsb

Spec == Init /\ [][Next]_vars

(***************************************************************************)
(* The basic variant: embed_lsb, then extract_lsb                          *)
(***************************************************************************)
InitLsb ==
    /\ cover_wav \in BasicCovers
    /\ embed_args = NoEmbedArgs
    /\ embed_ret = "not_called"
    /\ embed_local = NoEmbedLocal
    /\ stego_wav = None
    /\ extract_args = NoExtractArgs
    /\ extract_ret = "not_called"
    /\ extract_local = NoExtractLocal
    /\ LsbIdle
    /\ OrderIdle
    /\ CodecIdle

\* extract_lsb(stego_wav_path, max_payload_bytes, embed_map) on the file
\* embed_lsb wrote
ExtractLsb ==
    /\ lsb_ret = "returned"
    /\ xlsb_ret = "not_called"
    /\ \E a \in BasicExtractCalls(lsb_args) :
       \E out \in {extract_lsb(lsb_wav.val, a.max_payload_bytes, a.embed_map)} :
          /\ xlsb_args' = a
          /\ xlsb_ret' = out.ret
          /\ xlsb_local' = [value |-> out.value, bytes_all |-> out.bytes_all]
    /\ UNCHANGED << cover_wav, embed_args, embed_ret, embed_local, stego_wav,
                    extract_args, extract_ret, extract_local >>
    /\ UNCHANGED << lsb_args, lsb_ret, lsb_local, lsb_wav, order_vars, codec_vars >>

NextLsb == EmbedLsb \/ ExtractLsb

SpecLsb == InitLsb /\ [][NextLsb]_vars

(***************************************************************************)
(* generate_order_indices on its own                                       *)
(***************************************************************************)
InitOrder ==
    /\ StegoIdle
    /\ order_args \in OrderCalls
    /\ order_ret = None
    /\ CodecIdle

\* generate_order_indices(audio_path, key, frame_size, hop_size, energy_percentile)
GenerateOrder ==
    /\ order_ret = None
    /\ order_ret' =
          IF PercentileRaises(Len(FrameEdges(Len(order_args.data), order_args.frame_size,
                                             order_args.hop_size)),
                              order_args.energy_percentile)
          THEN OrderRaised
          ELSE Some(GenerateOrderIndices(order_args.data, order_args.key,
                                         order_args.frame_size, order_args.hop_size,
                                         order_args.energy_percentile))
    /\ UNCHANGED << order_args, stego_vars, codec_vars >>

NextOrder == GenerateOrder

SpecOrder == InitOrder /\ [][NextOrder]_vars

(***************************************************************************)
(* The robust codec on its own: encode, channel, decode                    *)
(***************************************************************************)
InitCodec ==
    /\ StegoIdle
    /\ OrderIdle
    /\ codec_args \in CodecCalls
    /\ codec_pc = "start"
    /\ encoded = << >>
    /\ flips = NoFlips
    /\ channel = << >>
    /\ decode_local = NoDecodeLocal

\* encode_payload(payload, key=key, repeat=repeat, interleave=interleave)
Encode ==
    /\ codec_pc = "start"
    /\ IF RepeatInvalid(codec_args.repeat)
       THEN /\ codec_pc' = "ValueError"
            /\ UNCHANGED << encoded, channel >>
       ELSE \E enc \in {encode_payload(codec_args.payload, codec_args.key,
                                       codec_args.repeat, codec_args.interleave)} :
            /\ codec_pc' = "encoded"
            /\ encoded' = enc
            /\ channel' = enc
    /\ UNCHANGED << codec_args, flips, decode_local, stego_vars, order_vars >>

\* the channel flips bits of the encoded bytes
Corrupt ==
    /\ codec_pc = "encoded"
    /\ \E pat \in FlipPatterns :
          /\ flips' = pat
          /\ channel' = Corrupted(encoded, codec_args.key, codec_args.repeat,
                                  codec_args.interleave, pat)
    /\ codec_pc' = "corrupted"
    /\ UNCHANGED << codec_args, encoded, decode_local, stego_vars, order_vars >>

\* a byte string that encode_payload did not make is put on the channel
Inject ==
    /\ codec_pc = "start"
    /\ \E inp \in InjectedInputs(codec_args) : channel' = inp
    /\ flips' = Injected
    /\ codec_pc' = "injected"
    /\ UNCHANGED << codec_args, encoded, decode_local, stego_vars, order_vars >>

\* decode_payload(channel, key=key, repeat=repeat, interleave=interleave)
Decode ==
    /\ codec_pc \in {"encoded", "corrupted", "injected"}
    /\ IF RepeatInvalid(codec_args.repeat)
       THEN /\ codec_pc' = "ValueError"
            /\ UNCHANGED decode_local
       ELSE /\ \E bits \in {Deinterleave(BytesToBits(channel), codec_args.key,
                                         codec_args.repeat, codec_args.interleave)} :
                  decode_local' =
                      [result     |-> decode_payload(channel, codec_args.key,
                                                     codec_args.repeat,
                                                     codec_args.interleave),
                       bits       |-> bits,
                       inner_bits |-> IF codec_args.repeat = 1
                                         \/ Len(bits) % codec_args.repeat # 0
                                      THEN << >>
                                      ELSE MajorityVote(bits, codec_args.repeat)]
            /\ codec_pc' = "decoded"
    /\ UNCHANGED << codec_args, encoded, flips, channel, stego_vars, order_vars >>

NextCodec == Encode \/ Corrupt \/ Inject \/ Decode

SpecCodec == InitCodec /\ [][NextCodec]_vars

(***************************************************************************)
(* Claims                                                                  *)
(***************************************************************************)
\* the extraction that ended was called on the written stego file with the
\* key and settings of the embedding
MatchedExtraction ==
    /\ embed_ret = "returned"
    /\ extract_ret # "not_called"
    /\ extract_args = MatchingArgs("stego")

\* C1: after a successful embed_adaptive_keyed, extract_adaptive_keyed on the
\* stego file with the same key and settings returns exactly the plaintext.
C1_RoundTrip ==
    MatchedExtraction =>
        /\ extract_ret = "returned"
        /\ extract_local.value = Some(embed_args.plaintext)

\* C2: the order extract_adaptive_keyed computes from the stego samples is,
\* position for position, the order embed_adaptive_keyed computed from the
\* cover samples.
C2_SameOrder ==
    MatchedExtraction => extract_local.order = embed_local.order

\* C3: generate_order_indices returns an array of length n that contains each
\* index of [0, n) exactly once.
C3_OrderIsPermutation ==
    order_ret.some =>
        LET n == Len(order_args.data)
            o == order_ret.val
        IN  /\ Len(o) = n
            /\ \A i \in 0..(n - 1) : Cardinality({k \in 1..Len(o) : o[k] = i}) = 1

\* an order of at least 8 samples in several frames, with attenuated frames,
\* that is not the identity
C3_Witness ==
    /\ order_ret.some
    /\ Len(order_args.data) >= 8
    /\ Len(FrameEdges(Len(order_args.data), order_args.frame_size, order_args.hop_size)) > 1
    /\ order_args.energy_percentile > 0
    /\ \E k \in 1..Len(order_ret.val) : order_ret.val[k] # k - 1

\* the bit length of PREAMBLE + 4-byte length + payload of the embedding
FramedBits == 8 * (Len(PREAMBLE) + 4 + Len(embed_local.payload))

\* the embedding got as far as the capacity check
ReachedCapacityCheck ==
    /\ embed_ret # "not_called"
    /\ ~(RobustEnabled(embed_args.robust_repeat, embed_args.robust_interleave)
            /\ RepeatInvalid(embed_args.robust_repeat))

\* C5: when the framed bit length is at most order.size (equality included)
\* embed_adaptive_keyed succeeds, and when it exceeds order.size by any
\* amount the call fails with the capacity error.
C5_CapacityBoundary ==
    ReachedCapacityCheck =>
        embed_ret = IF FramedBits <= Len(embed_local.order)
                    THEN "returned" ELSE "ValueError_capacity"

\* a capacity error on a cover one sample short of the framed bit length
C5_Witness ==
    /\ embed_ret = "ValueError_capacity"
    /\ FramedBits = Len(embed_local.order) + 1
    /\ Len(embed_local.order) = Len(cover_wav)

\* C6: when embed_adaptive_keyed fails with the capacity error no stego
\* output is written and no sample of the buffer differs from the cover.
C6_NoWriteOnCapacityError ==
    embed_ret = "ValueError_capacity" =>
        /\ stego_wav = None
        /\ embed_local.data = cover_wav

\* a capacity error on a cover where writing the bits that fit would have
\* changed a sample
C6_Witness ==
    /\ embed_ret = "ValueError_capacity"
    /\ Len(embed_local.bits) > Len(embed_local.order)
    /\ \E k \in 1..Len(embed_local.order) :
          Lsb(cover_wav[embed_local.order[k] + 1]) # embed_local.bits[k]

\* C7: extract_adaptive_keyed never raises: every call ends by returning
\* (the payload or None).
C7_ExtractNeverRaises ==
    extract_ret \in {"not_called", "returned"}

\* C8: with robust_repeat even or less than 1, embed_adaptive_keyed ends with
\* an error and produces no stego output, for both values of
\* robust_interleave.
C8_InvalidRepeatRejected ==
    (embed_ret # "not_called" /\ RepeatInvalid(embed_args.robust_repeat)) =>
        /\ embed_ret \in {"ValueError_repeat", "ValueError_capacity"}
        /\ stego_wav = None

\* C9: decode_payload(encode_payload(x, key, repeat, interleave), key, repeat,
\* interleave) returns exactly x for every non-empty payload x, odd repeat
\* and both values of interleave.
C9_CodecRoundTrip ==
    (codec_pc = "decoded" /\ flips = NoFlips /\ Len(codec_args.payload) > 0) =>
        decode_local.result = Some(codec_args.payload)

\* an uncorrupted round trip with repetition, through an interleaving that
\* moved bits
C9_Witness ==
    /\ codec_pc = "decoded"
    /\ flips = NoFlips
    /\ Len(codec_args.payload) >= 2
    /\ codec_args.repeat = 5
    /\ codec_args.interleave
    /\ encoded # encode_payload(codec_args.payload, codec_args.key, codec_args.repeat, FALSE)
    /\ decode_local.result.some

\* the number of ones in block g (from 1) of the de-interleaved bits
OnesInBlock(g) ==
    Cardinality({k \in 1..codec_args.repeat :
                    decode_local.bits[(g - 1) * codec_args.repeat + k] = 1})

\* C10: with repeat = 3 and at most one flipped bit in each 3-bit block of
\* the de-interleaved stream, decode_payload returns the original payload;
\* each voted bit is 1 iff strictly more than repeat/2 bits of its block
\* are 1.
C10_Tolerance ==
    codec_pc = "decoded" =>
        /\ (codec_args.repeat = 3 /\ flips.kind \in {"none", "one_per_block"})
              => decode_local.result = Some(codec_args.payload)
        /\ (codec_args.repeat > 1 /\ Len(decode_local.bits) % codec_args.repeat = 0)
              => /\ Len(decode_local.inner_bits) * codec_args.repeat = Len(decode_local.bits)
                 /\ \A g \in 1..Len(decode_local.inner_bits) :
                       decode_local.inner_bits[g] = 1 <=> 2 * OnesInBlock(g) > codec_args.repeat

\* a decoding with repeat = 3 of an interleaved stream in which one bit of
\* every block was flipped
C10_Witness ==
    /\ codec_pc = "decoded"
    /\ codec_args.repeat = 3
    /\ codec_args.interleave
    /\ Len(codec_args.payload) > 0
    /\ flips.kind = "one_per_block" /\ flips.a = 0 /\ flips.b < 3
    /\ channel # encoded
    /\ \A g \in 1..Len(decode_local.inner_bits) : OnesInBlock(g) \in {1, 2}
    /\ decode_local.result = Some(codec_args.payload)

\* the number of positions at which the bit sequences a and b (of equal
\* length) differ within the block g (from 1) of repeat bits
FlippedInBlock(a, b, g, repeat) ==
    Cardinality({k \in 1..repeat : a[(g - 1) * repeat + k] # b[(g - 1) * repeat + k]})

\* the de-interleaved bits of the stream encode_payload returned
SentBits ==
    Deinterleave(BytesToBits(encoded), codec_args.key, codec_args.repeat,
                 codec_args.interleave)

\* C11: with repeat = 3, when 2 of the 3 bits of every repetition block of
\* the encoded stream are flipped, decode_payload returns None: it neither
\* raises nor returns a payload.
C11_TwoFlipsGiveNone ==
    (/\ codec_pc = "decoded"
     /\ codec_args.repeat = 3
     /\ flips.kind = "two_per_block"
     /\ \A g \in 1..(Len(decode_local.bits) \div 3) :
           FlippedInBlock(decode_local.bits, SentBits, g, 3) = 2)
        => decode_local.result = None

\* a decoding with repeat = 3 of an interleaved stream, of a non-empty
\* payload, in which two bits of every block were flipped
C11_Witness ==
    /\ codec_pc = "decoded"
    /\ codec_args.repeat = 3
    /\ codec_args.interleave
    /\ Len(codec_args.payload) > 0
    /\ flips.kind = "two_per_block"
    /\ Len(decode_local.bits) = Len(SentBits)
    /\ Len(decode_local.bits) >= 3 * 8 * 12
    /\ \A g \in 1..(Len(decode_local.bits) \div 3) :
           FlippedInBlock(decode_local.bits, SentBits, g, 3) = 2
    /\ decode_local.result = None

\* the frame decode_payload checks: the de-interleaved bits, voted when
\* repeat > 1, as bytes
VotedFrame ==
    IF codec_args.repeat = 1 THEN BitsToBytes(decode_local.bits)
                             ELSE BitsToBytes(decode_local.inner_bits)

\* C12: for every input and odd repeat, decode_payload returns None or a
\* payload p such that the bit count is a multiple of repeat and the
\* de-interleaved, voted frame has at least 12 bytes, starts with RBST,
\* carries len(p) in its length field and crc32(p) in its CRC field, and
\* holds p right after the header; it raises for no odd repeat >= 1.
C12_DecodedFrameIsChecked ==
    /\ codec_pc = "ValueError" => RepeatInvalid(codec_args.repeat)
    /\ (codec_pc = "decoded" /\ decode_local.result.some) =>
          LET p == decode_local.result.val
              f == VotedFrame
          IN  /\ Len(decode_local.bits) % codec_args.repeat = 0
              /\ Len(f) >= 12 + Len(p)
              /\ SubSeq(f, 1, 4) = << 82, 66, 83, 84 >>
              /\ f[5] = 0 /\ 65536 * f[6] + 256 * f[7] + f[8] = Len(p)
              /\ SubSeq(f, 9, 12) = Crc32(p)
              /\ SubSeq(f, 13, 12 + Len(p)) = p

\* a payload returned from a repeated, interleaved stream that
\* encode_payload did not make, whose frame holds bytes after the payload
C12_Witness ==
    /\ codec_pc = "decoded"
    /\ flips = Injected
    /\ codec_args.repeat = 3
    /\ codec_args.interleave
    /\ decode_local.result.some
    /\ Len(decode_local.result.val) > 0
    /\ Len(VotedFrame) > 12 + Len(decode_local.result.val)

\* the byte formed, most significant bit first, from the least significant
\* bits of the samples data[order[8j]], ..., data[order[8j + 7]] (bits beyond
\* the first limit positions of the order count as 0)
LsbByteAt(data, order, j, limit) ==
    LET bit(b) == IF 8 * j + b < limit THEN data[order[8 * j + b + 1] + 1] % 2 ELSE 0
    IN  bit(0) * 128 + bit(1) * 64 + bit(2) * 32 + bit(3) * 16
      + bit(4) * 8 + bit(5) * 4 + bit(6) * 2 + bit(7)

\* the header the ended extraction had to read from its file
HeaderRead ==
    LET cnt == Min2(64, Len(extract_local.order))
    IN  [j \in 1..((cnt + 7) \div 8) |->
            LsbByteAt(FileRead(extract_args.source), extract_local.order, j - 1, cnt)]

\* the first 4 bytes of the header read are the magic ASTG
MagicFound ==
    /\ Len(extract_local.header_bytes) >= 4
    /\ SubSeq(extract_local.header_bytes, 1, 4) = << 65, 83, 84, 71 >>

\* C13: extract_adaptive_keyed forms its header from the 64 LSBs at
\* order[0:64]; when its first 4 bytes are not ASTG the call returns None,
\* has read no payload bit and has invoked neither the robust decoder (no
\* error of the decoder arises) nor the decryption.
C13_PreambleMismatch ==
    extract_ret # "not_called" =>
        /\ extract_local.header_bytes = HeaderRead
        /\ ~MagicFound =>
              /\ extract_ret = "returned"
              /\ extract_local.value = None
              /\ extract_local.stage = "preamble"
              /\ extract_local.payload = << >>

\* an extraction from a written stego file of at least 64 samples whose
\* header does not start with ASTG, called with a repetition factor the
\* robust decoder rejects
C13_Witness ==
    /\ extract_ret = "returned"
    /\ extract_args.source = "stego"
    /\ extract_args.robust_repeat = 2
    /\ Len(extract_local.order) >= 64
    /\ Len(extract_local.header_bytes) = 8
    /\ ~MagicFound
    /\ extract_local.value = None

\* the length field of the header read, as a big-endian number (2^24 stands
\* for every length of more than 3 bytes)
LengthRead ==
    LET h == extract_local.header_bytes
    IN  IF h[5] > 0 THEN 16777216 ELSE 65536 * h[6] + 256 * h[7] + h[8]

\* C14: when the magic matches and 64 + length*8 > order.size the call
\* returns None; otherwise the payload handed to the next layer is the
\* length bytes formed, most significant bit first, from the LSBs at
\* order[64 : 64 + length*8].
C14_LengthAndPayload ==
    (extract_ret # "not_called" /\ MagicFound /\ Len(extract_local.order) >= 64) =>
        IF 64 + 8 * LengthRead > Len(extract_local.order)
        THEN /\ extract_ret = "returned"
             /\ extract_local.value = None
             /\ extract_local.stage = "capacity"
        ELSE /\ extract_local.stage = "layers"
             /\ Len(extract_local.payload) = LengthRead
             /\ \A j \in 1..LengthRead :
                   extract_local.payload[j] =
                       LsbByteAt(FileRead(extract_args.source), extract_local.order,
                                 7 + j, Len(extract_local.order))

\* an extraction that found the magic and a length one byte beyond the
\* capacity of the order
C14_Witness ==
    /\ extract_ret = "returned"
    /\ extract_args.source = "stego_length_plus_1"
    /\ MagicFound
    /\ LengthRead > 0
    /\ 64 + 8 * LengthRead = Len(extract_local.order) + 8
    /\ extract_local.value = None

\* ASTG, the length of the payload of the embedding as 4 bytes, most
\* significant first (payloads are shorter than 2^24 bytes), and the payload
FramedMessage ==
    LET L == Len(embed_local.payload)
    IN  << 65, 83, 84, 71 >>
        \o << 0, L \div 65536, (L \div 256) % 256, L % 256 >>
        \o embed_local.payload

\* bit k (from 1) of the message msg, each byte most significant bit first
MessageBit(msg, k) == (msg[((k - 1) \div 8) + 1] \div Pow2(7 - ((k - 1) % 8))) % 2

\* C15: the message embedded is ASTG, the 4-byte big-endian length of the
\* payload, then the payload, so that 64 + 8*len(payload) positions are
\* consumed.
C15_Framing ==
    embed_ret = "returned" =>
        /\ Len(embed_local.bits) = 64 + 8 * Len(embed_local.payload)
        /\ Len(embed_local.bits) = 8 * Len(FramedMessage)
        /\ LET msg == FramedMessage
           IN  \A k \in 1..Len(embed_local.bits) :
                   embed_local.bits[k] = MessageBit(msg, k)

\* the longest framed message of the calls: an encrypted plaintext, encoded
\* with repeat 3, in a cover of exactly its 1120 bits
C15_Witness ==
    /\ embed_ret = "returned"
    /\ embed_args.encrypt
    /\ embed_args.robust_repeat = 3
    /\ Len(embed_local.payload) = 132
    /\ Len(embed_local.bits) = Len(cover_wav)

\* C16: after a successful embedding of N bits, for every i in [0, N) the LSB
\* of stego[order[i]] is bit i of the message, most significant bit first.
C16_LsbsCarryMessage ==
    embed_ret = "returned" =>
        /\ stego_wav.some
        /\ Len(embed_local.bits) <= Len(embed_local.order)
        /\ LET msg == FramedMessage
           IN  \A k \in 1..Len(embed_local.bits) :
                   stego_wav.val[embed_local.order[k] + 1] % 2 = MessageBit(msg, k)

\* a successful embedding that cleared a set LSB and set a clear one
C16_Witness ==
    /\ embed_ret = "returned"
    /\ \E k \in 1..Len(embed_local.bits) :
          cover_wav[embed_local.order[k] + 1] % 2 = 1 /\ MessageBit(FramedMessage, k) = 0
    /\ \E k \in 1..Len(embed_local.bits) :
          cover_wav[embed_local.order[k] + 1] % 2 = 0 /\ MessageBit(FramedMessage, k) = 1

\* the sample indices the embedding consumed: order[0:N] for its N bits
ConsumedPositions == {embed_local.order[k] : k \in 1..Len(embed_local.bits)}

\* C17: embedding changes only LSBs at consumed positions: the stego signal
\* has the length of the cover, samples outside order[0:N] are unchanged, and
\* a consumed sample keeps its bits above the LSB, differs from the cover
\* sample by at most 1 and stays in the int16 range, -32768 and 32767
\* included.
C17_OnlyLsbsChange ==
    embed_ret = "returned" =>
        /\ Len(stego_wav.val) = Len(cover_wav)
        /\ LET consumed == ConsumedPositions
           IN  \A i \in 1..Len(cover_wav) :
                   LET c == cover_wav[i]
                       t == stego_wav.val[i]
                   IN  IF (i - 1) \in consumed
                       THEN /\ t - (t % 2) = c - (c % 2)
                            /\ t - c \in {-1, 0, 1}
                            /\ t \in -32768..32767
                       ELSE t = c

\* a successful embedding that changed a sample of -32768 and a sample of
\* 32767 and left some sample unconsumed
C17_Witness ==
    /\ embed_ret = "returned"
    /\ \E i \in 1..Len(cover_wav) :
          /\ (i - 1) \in ConsumedPositions
          /\ cover_wav[i] = -32768 /\ stego_wav.val[i] = -32767
    /\ \E i \in 1..Len(cover_wav) :
          /\ (i - 1) \in ConsumedPositions
          /\ cover_wav[i] = 32767 /\ stego_wav.val[i] = 32766
    /\ \E i \in 1..Len(cover_wav) : (i - 1) \notin ConsumedPositions

\* C18: embedding writes into a copy: when embed_adaptive_keyed or embed_lsb
\* has returned or failed, the cover buffer it read holds the values it had
\* before the call.
C18_CoverBufferKept ==
    /\ embed_ret # "not_called" => embed_local.data = cover_wav
    /\ lsb_ret # "not_called" => lsb_local.data = cover_wav

\* both variants wrote a file that differs from the cover they read
C18_Witness ==
    /\ embed_ret = "returned"
    /\ stego_wav.val # cover_wav
    /\ embed_local.data = cover_wav
    /\ lsb_ret = "returned"
    /\ lsb_args.embed_map.some
    /\ lsb_wav.val # cover_wav
    /\ lsb_local.data = cover_wav

\* the payload the ended extraction read, after the robust decoding its
\* arguments ask for (None when the decoder rejects it)
RobustDecoded ==
    IF RobustEnabled(extract_args.robust_repeat, extract_args.robust_interleave)
    THEN decode_payload(extract_local.payload, extract_args.user_key,
                        extract_args.robust_repeat, extract_args.robust_interleave)
    ELSE Some(extract_local.payload)

\* C19: the embedding encrypts first, then robust-encodes, then frames; the
\* extraction unframes, robust-decodes, then decrypts, and a robust decode
\* that returns None or a decryption that fails makes the result None.
C19_LayerOrder ==
    /\ embed_ret \in {"returned", "ValueError_capacity"} =>
          \E iv \in IVs :
              LET cipher == IF embed_args.encrypt
                            THEN aes_encrypt(embed_args.plaintext, embed_args.user_key, iv)
                            ELSE embed_args.plaintext
              IN  embed_local.payload =
                      IF RobustEnabled(embed_args.robust_repeat, embed_args.robust_interleave)
                      THEN encode_payload(cipher, embed_args.user_key,
                                          embed_args.robust_repeat,
                                          embed_args.robust_interleave)
                      ELSE cipher
    /\ (extract_ret = "returned" /\ extract_local.stage = "layers") =>
          IF ~RobustDecoded.some THEN extract_local.value = None
          ELSE IF extract_args.decrypt
               THEN LET plain == aes_decrypt(RobustDecoded.val, extract_args.user_key)
                    IN  extract_local.value = IF plain.some THEN plain ELSE None
               ELSE extract_local.value = RobustDecoded

\* an extraction that undid the framing, the robust encoding and the
\* encryption and returned the plaintext of the embedding
C19_Witness ==
    /\ embed_ret = "returned"
    /\ embed_args.encrypt
    /\ RobustEnabled(embed_args.robust_repeat, embed_args.robust_interleave)
    /\ extract_ret = "returned"
    /\ extract_local.stage = "layers"
    /\ extract_args.decrypt
    /\ RobustEnabled(extract_args.robust_repeat, extract_args.robust_interleave)
    /\ extract_local.payload = embed_local.payload
    /\ extract_local.value = Some(embed_args.plaintext)

\* C20: the capacity _capacity_from_order computes from the order length is
\* the maximum embeddable payload size: a payload of L bytes passes the
\* capacity check of embed_adaptive_keyed if and only if
\* L <= _capacity_from_order(order.size).
C20_CapacityIsMaximum ==
    ReachedCapacityCheck =>
        (embed_ret = "returned"
            <=> Len(embed_local.payload) <= CapacityFromOrder(Len(embed_local.order)))

\* C21: order generation has no error condition: generate_order_indices
\* succeeds for every non-empty buffer and returns an empty order for an empty
\* buffer, for every energy_percentile and every positive frame_size and
\* hop_size.
C21_OrderNeverFails ==
    order_ret # None =>
        /\ order_ret.some
        /\ Len(order_args.data) = 0 => order_ret.val = << >>

\* the frames of the buffer of the ended call of generate_order_indices
EdgesOfCall ==
    FrameEdges(Len(order_args.data), order_args.frame_size, order_args.hop_size)

\* C23: for n samples and positive frame_size and hop_size, _frame_edges
\* returns the frames (k*hop_size, min(k*hop_size + frame_size, n)) for
\* k = 0, 1, ... while k*hop_size < n, in increasing start order; every frame
\* is non-empty with 0 <= start < end <= n and end - start <= frame_size, and
\* there are exactly ceil(n / hop_size) frames.
C23_FrameEdges ==
    order_ret # None =>
        LET n     == Len(order_args.data)
            fs    == order_args.frame_size
            hop   == order_args.hop_size
            edges == EdgesOfCall
        IN  /\ Len(edges) * hop >= n
            /\ (Len(edges) - 1) * hop < n \/ Len(edges) = 0
            /\ \A k \in 1..Len(edges) :
                  /\ edges[k][1] = (k - 1) * hop
                  /\ edges[k][2] = IF (k - 1) * hop + fs <= n THEN (k - 1) * hop + fs ELSE n
                  /\ 0 <= edges[k][1] /\ edges[k][1] < edges[k][2] /\ edges[k][2] <= n
                  /\ edges[k][2] - edges[k][1] <= fs
                  /\ k > 1 => edges[k - 1][1] < edges[k][1]

\* a buffer whose last frame is clipped to the buffer and starts less than a
\* hop before its end, after full frames
C23_Witness ==
    /\ order_ret.some
    /\ Len(EdgesOfCall) >= 3
    /\ EdgesOfCall[1][2] - EdgesOfCall[1][1] = order_args.frame_size
    /\ LET last == EdgesOfCall[Len(EdgesOfCall)]
       IN  /\ last[2] = Len(order_args.data)
           /\ last[2] - last[1] < order_args.frame_size
           /\ last[2] - last[1] < order_args.hop_size

\* the random draws and the per-sample scores (numerators pss over the
\* denominator 10 * den) of the ended call of generate_order_indices
ScoresOfCall ==
    LET n     == Len(order_args.data)
        edges == EdgesOfCall
        sc    == NormalizeScores(FrameRms(order_args.data, edges))
        fs    == AttenuatedScores(sc, order_args.energy_percentile)
    IN  [edges |-> edges, fscore |-> fs, pss |-> PerSampleScore(n, edges, fs),
         den |-> sc.den, rand |-> RandomVector(HashToSeed(order_args.key), n)]

\* -1, 0 or 1 as the key rand / (score + 1e-6) of sample a (0-based) is
\* below, equal to or above that of sample b: with score = pss / (10 den),
\* key[a] < key[b] iff 10^5 (ra pss[b] - rb pss[a]) < den (rb - ra)
KeySign(c, a, b) ==
    LET lhs == c.rand[a + 1] * c.pss[b + 1] - c.rand[b + 1] * c.pss[a + 1]
        rhs == c.den * (c.rand[b + 1] - c.rand[a + 1])
    IN  IF rhs % 100000 = 0 /\ lhs = rhs \div 100000 THEN 0
        ELSE IF lhs <= (rhs - 1) \div 100000 THEN -1
        ELSE 1

\* C24: the order is a stable ascending sort of the per-sample keys: for
\* positions p < q, key[order[p]] <= key[order[q]], and when the two keys are
\* equal order[p] < order[q].
C24_StableAscending ==
    order_ret.some =>
        LET o == order_ret.val
            c == ScoresOfCall
        IN  \A p, q \in 1..Len(o) :
                p < q => /\ KeySign(c, o[p], o[q]) <= 0
                         /\ KeySign(c, o[p], o[q]) = 0 => o[p] < o[q]

\* an order of several frames in which two samples with equal keys, not the
\* first of the buffer, stand in index order after the order moved others
C24_Witness ==
    /\ order_ret.some
    /\ LET o == order_ret.val
           c == ScoresOfCall
       IN  /\ \E p, q \in 1..Len(o) :
                 p < q /\ KeySign(c, o[p], o[q]) = 0 /\ c.rand[o[p] + 1] > 0
           /\ \E k \in 1..Len(o) : o[k] # k - 1

\* the position (from 1) of sample a in the order o
PositionOf(o, a) == CHOOSE p \in 1..Len(o) : o[p] = a

FramesContaining(c, i) ==
    {k \in 1..Len(c.edges) : c.edges[k][1] <= i /\ i < c.edges[k][2]}

\* C29: a sample covered by several overlapping frames receives the score of
\* the frame with the largest start among those containing it; a sample
\* covered by no frame keeps score 0, which happens only when
\* hop_size > frame_size; when hop_size <= frame_size every index in [0, n)
\* is covered by a frame.
C29_ScoreBroadcast ==
    order_ret.some =>
        LET c == ScoresOfCall
        IN  \A i \in 0..(Len(order_args.data) - 1) :
                LET ks == FramesContaining(c, i)
                IN  /\ \A k \in ks :
                          (\A m \in ks : c.edges[m][1] <= c.edges[k][1])
                              => c.pss[i + 1] = c.fscore[k]
                    /\ ks = {} => /\ c.pss[i + 1] = 0
                                  /\ order_args.hop_size > order_args.frame_size
                    /\ order_args.hop_size <= order_args.frame_size => ks # {}

\* a sample in two overlapping frames of different scores that took the score
\* of the later frame
C29_Witness ==
    /\ order_ret.some
    /\ LET c == ScoresOfCall
       IN  \E i \in 0..(Len(order_args.data) - 1) :
              \E k, m \in FramesContaining(c, i) :
                 /\ k < m
                 /\ m = SetMax(FramesContaining(c, i))
                 /\ c.fscore[k] # c.fscore[m]
                 /\ c.pss[i + 1] = c.fscore[m]

\* encode_payload has returned the bytes in encoded
EncodeReturned ==
    /\ codec_pc \in {"encoded", "corrupted", "decoded"}
    /\ flips.kind # "injected"

\* C26: encode_payload with repeat = 1 and interleave = false returns
\* RBST || 4-byte big-endian len(payload) || 4-byte big-endian crc32(payload)
\* || payload, with no repetition and no permutation.
C26_PlainFrame ==
    (EncodeReturned /\ codec_args.repeat = 1 /\ ~codec_args.interleave) =>
        LET L == Len(codec_args.payload)
        IN  /\ Len(encoded) = 12 + L
            /\ SubSeq(encoded, 1, 4) = << 82, 66, 83, 84 >>
            /\ SubSeq(encoded, 5, 8) = << 0, L \div 65536, (L \div 256) % 256, L % 256 >>
            /\ SubSeq(encoded, 9, 12) = Crc32(codec_args.payload)
            /\ SubSeq(encoded, 13, 12 + L) = codec_args.payload

\* the plain frame of a payload of the greatest length
C26_Witness ==
    /\ EncodeReturned
    /\ codec_args.repeat = 1
    /\ ~codec_args.interleave
    /\ Len(codec_args.payload) = MaxPayloadLen
    /\ Len(encoded) = 12 + MaxPayloadLen

\* C28: for an odd repeat >= 1 the output of encode_payload has
\* repeat * (12 + len(payload)) bytes (12 + len(payload) on the shortcut
\* repeat = 1, interleave = false): the expanded bit count is a multiple of 8
\* and no padding bit is added, so the bit count from which decode_payload
\* derives the interleave seed is the one encode_payload used and both sides
\* generate the same permutation.
C28_NoPadding ==
    EncodeReturned =>
        LET nbits == codec_args.repeat * 8 * (12 + Len(codec_args.payload))
        IN  /\ nbits % 8 = 0
            /\ 8 * Len(encoded) = nbits
            /\ 8 * Len(channel) = nbits
            /\ codec_pc = "decoded" =>
                  /\ Len(decode_local.bits) = nbits
                  /\ SeedFrom(codec_args.key, 8 * Len(channel), codec_args.repeat)
                        = SeedFrom(codec_args.key, nbits, codec_args.repeat)
                  /\ Permutation(SeedFrom(codec_args.key, 8 * Len(channel),
                                          codec_args.repeat), 8 * Len(channel))
                        = Permutation(SeedFrom(codec_args.key, nbits, codec_args.repeat),
                                      nbits)

\* a decoded interleaved encoding with repeat 5 of a payload of odd length
C28_Witness ==
    /\ EncodeReturned
    /\ codec_pc = "decoded"
    /\ codec_args.repeat = 5
    /\ codec_args.interleave
    /\ Len(codec_args.payload) = 1
    /\ Len(encoded) = 65
    /\ decode_local.result = Some(codec_args.payload)

\* len(payload) before the robust layer: the plaintext, or the IV and the
\* padded ciphertext
CipherLen ==
    IF embed_args.encrypt THEN 16 + 16 * ((Len(embed_args.plaintext) \div 16) + 1)
    ELSE Len(embed_args.plaintext)

\* C27: the robust layer is applied by embed_adaptive_keyed and undone by
\* extract_adaptive_keyed exactly when robust_repeat > 1 or robust_interleave
\* is false, so for equal settings both sides agree on whether an RBST frame
\* is present; with robust_repeat = 1 and robust_interleave = true the
\* embedded payload carries no RBST frame, no CRC and no interleaving.
C27_RobustPredicate ==
    /\ ReachedCapacityCheck =>
          IF embed_args.robust_repeat > 1 \/ ~embed_args.robust_interleave
          THEN /\ Len(embed_local.payload) = embed_args.robust_repeat * (12 + CipherLen)
               /\ LET inner == decode_payload(embed_local.payload, embed_args.user_key,
                                              embed_args.robust_repeat,
                                              embed_args.robust_interleave)
                  IN  /\ inner.some
                      /\ Len(inner.val) = CipherLen
                      /\ ~embed_args.encrypt => inner.val = embed_args.plaintext
          ELSE /\ Len(embed_local.payload) = CipherLen
               /\ ~embed_args.encrypt => embed_local.payload = embed_args.plaintext
    /\ (extract_ret = "returned" /\ extract_local.stage = "layers"
            /\ ~extract_args.decrypt) =>
          IF extract_args.robust_repeat > 1 \/ ~extract_args.robust_interleave
          THEN extract_local.value =
                   decode_payload(extract_local.payload, extract_args.user_key,
                                  extract_args.robust_repeat,
                                  extract_args.robust_interleave)
          ELSE extract_local.value = Some(extract_local.payload)

\* an embedding with robust_repeat = 1 and robust_interleave = false, whose
\* payload is the 12-byte frame and the plaintext, undone by the extraction
\* with the same settings
C27_Witness ==
    /\ embed_ret = "returned"
    /\ embed_args.robust_repeat = 1
    /\ ~embed_args.robust_interleave
    /\ ~embed_args.encrypt
    /\ Len(embed_local.payload) = 12 + Len(embed_args.plaintext)
    /\ extract_ret = "returned"
    /\ extract_args = MatchingArgs("stego")
    /\ extract_local.payload = embed_local.payload
    /\ extract_local.value = Some(embed_args.plaintext)

\* the map of the ended embed_lsb call is a mask compute_energy_mask gives
\* for the cover
EmbeddedWithEnergyMask ==
    /\ lsb_ret = "returned"
    /\ \E ms \in MaskSettings :
          lsb_args.embed_map = Some(compute_energy_mask(cover_wav, ms[1], ms[2], ms[3]))

\* C22: a payload embedded by embed_lsb with the energy mask of
\* compute_energy_mask as embed_map is recovered by extract_lsb called on the
\* stego file as the demo calls it: no embed_map, max_payload_bytes at least
\* the payload length.
C22_DemoRoundTrip ==
    (/\ xlsb_ret # "not_called"
     /\ EmbeddedWithEnergyMask
     /\ ~xlsb_args.embed_map.some
     /\ xlsb_args.max_payload_bytes >= Len(lsb_args.payload_bytes))
        => /\ xlsb_ret = "returned"
           /\ xlsb_local.value = Some(lsb_args.payload_bytes)

\* C30: embed_lsb with embed_map M followed by extract_lsb on the result with
\* the same M returns the payload; with embed_map None on both sides it
\* returns the payload when max_payload_bytes >= len(payload) and None when
\* max_payload_bytes < len(payload).
C30_BasicRoundTrip ==
    xlsb_ret # "not_called" =>
        /\ (lsb_args.embed_map.some /\ xlsb_args.embed_map = lsb_args.embed_map) =>
              /\ xlsb_ret = "returned"
              /\ xlsb_local.value = Some(lsb_args.payload_bytes)
        /\ (~lsb_args.embed_map.some /\ ~xlsb_args.embed_map.some) =>
              /\ xlsb_ret = "returned"
              /\ xlsb_local.value =
                    IF xlsb_args.max_payload_bytes >= Len(lsb_args.payload_bytes)
                    THEN Some(lsb_args.payload_bytes) ELSE None

\* a payload recovered through a map that does not start at the first sample
\* and has gaps, with max_payload_bytes below the payload length
C30_Witness ==
    /\ xlsb_ret = "returned"
    /\ lsb_args.embed_map.some
    /\ xlsb_args.embed_map = lsb_args.embed_map
    /\ ~lsb_args.embed_map.val[1]
    /\ \E i \in 2..(Len(cover_wav) - 1) :
          lsb_args.embed_map.val[i] /\ ~lsb_args.embed_map.val[i + 1]
    /\ xlsb_args.max_payload_bytes < Len(lsb_args.payload_bytes)
    /\ xlsb_local.value = Some(lsb_args.payload_bytes)

=============================================================================
